---- MODULE Spec2Model ----
(***************************************************************************)
(* Model of the agent-emulator control loop of peppa:                      *)
(*   - AIAgent      (web/src/lib/ai-agent.ts, the revision with `status`)  *)
(*   - V86Wrapper   (web/src/lib/v86-wrapper.ts, the first revision)       *)
(* Every action is one run-to-completion slice of a handler: from a call   *)
(* or the resumption of an await up to the next await of that coroutine.   *)
(***************************************************************************)
EXTENDS Integers, Sequences, FiniteSets, TLC

(* ------------------------------ bounds --------------------------------- *)
\* number of turns (accepted sendUserMessage calls) followed per behaviour
MaxTurns == 2
\* number of accepted start() calls followed per behaviour
MaxStarts == 2
\* number of AIAgent.stop() calls per behaviour
MaxStops == 2
\* number of sendText calls made on the facade by callers other than the agent
MaxSendText == 2
\* number of V86Wrapper.init() calls per behaviour
MaxInits == 2
\* number of "download-progress" events per behaviour
MaxProgress == 2
\* number of sendKey and sendSpecialKey calls per behaviour
MaxKeys == 2
\* number of frames a streamed response carries before its [DONE] frame
MaxFrames == 2
\* number of characters of a command whose typing is followed in time
MaxCommandLen == 22
\* number of initEmulator() runs of the environment page per behaviour
MaxPageInits == 3
\* number of environments the page shows one after the other
MaxEnvironments == 2
\* onUpdate registrations followed on one object
MaxRegistrations == 3

(* ------------------------------ values --------------------------------- *)
\* a piece of a model reply: prose, or one ``` fenced block with its inner text
Seg(f, b) == [fenced |-> f, body |-> b]

Prose(s) == <<Seg(FALSE, <<s>>)>>

\* replies the completion endpoint may produce
Replies ==
  { Prose("ok"),
    <<Seg(TRUE, <<" ">>), Seg(TRUE, <<"l">>), Seg(FALSE, <<"then">>),
      Seg(TRUE, <<" ", "p">>)>> }

\* texts other callers pass to V86Wrapper.sendText
Texts == { <<"a">>, <<"b", "c">> }

UserMessages == { Prose("msg") }

Greeting == Prose("Hello! I'm your AI assistant")

StoppedNote == Prose("AI agent stopped")

CancelledText == Prose("Request was cancelled.")

ErrorReplyText == Prose("I encountered an error processing your request. Please try again.")

NoCommand == <<>>

Entry(r, t, c, cmd) == [role |-> r, type |-> t, content |-> c, command |-> cmd]

(* ------------------------------ state ---------------------------------- *)
VARIABLES
  \* AIAgent fields
  status, isProcessing, history, commandQueue, isExecutingCommand,
  abortController, agentEmulator,
  \* AIAgent coroutines: start() calls and turns (processNextStep)
  starts, turns,
  \* observations of the agent: last state passed to subscribers and number
  \* of completion requests issued
  published, requests,
  \* V86Wrapper fields
  emulator, isRunning, keyboardBuffer, processingKeyboard, lastScreenshot,
  vmStatus, screenContainer, bootProgress, lastAction, eventListeners,
  \* V86Wrapper coroutines: init(), the processKeyboardBuffer loops and the
  \* latest key call
  initPc, initInfo, activeDrains, keyCall,
  \* environment of the facade: the engine object and the script loader
  engine, scriptLoaded,
  \* observations of the facade
  injected, issued, accepted, queuedWhileDraining, destroyedWithQueue,
  observer, destroyed, opThrew, nSendText, nInits, nProgress, nKeys,
  \* the options of one V86Wrapper from its constructor to `new V86Class`
  bootCall,
  \* one document taken through PeppaParser.parse, generate and parse again
  parserRun,
  \* one call of DeepSeekClient.streamCompletion
  streamRun,
  \* one command of processCommandQueue with the clock of its timers
  paceRun,
  \* the environment page: its `initialized` state, refs and init effect
  page,
  \* one object with onUpdate subscribers (facade or agent)
  subject

\* the components followed apart from the agent and its facade
libVars == <<bootCall, parserRun, streamRun, paceRun, page, subject>>

agentVars == <<status, isProcessing, history, commandQueue, isExecutingCommand,
               abortController, agentEmulator, starts, turns, published,
               requests>>

keyboardVars == <<keyboardBuffer, processingKeyboard, activeDrains, injected,
                  issued, accepted, queuedWhileDraining>>

facadeVars == <<emulator, isRunning, keyboardBuffer, processingKeyboard,
                lastScreenshot, vmStatus, screenContainer, bootProgress,
                lastAction, eventListeners, initPc, initInfo, activeDrains,
                keyCall, engine, scriptLoaded, injected, issued, accepted,
                queuedWhileDraining, destroyedWithQueue, observer, destroyed,
                opThrew, nSendText, nInits, nProgress, nKeys>>

vars == <<status, isProcessing, history, commandQueue, isExecutingCommand,
          abortController, agentEmulator, starts, turns, published,
          requests,
          emulator, isRunning, keyboardBuffer, processingKeyboard,
          lastScreenshot, vmStatus, screenContainer, bootProgress,
          lastAction, eventListeners, initPc, initInfo, activeDrains,
          keyCall, engine, scriptLoaded, injected, issued, accepted,
          queuedWhileDraining, destroyedWithQueue, observer, destroyed,
          opThrew, nSendText, nInits, nProgress, nKeys, libVars>>

(* ------------------------ AIAgent.addToHistory ------------------------- *)
\* variant: the history keeps only the newest entry
addToHistory_Replace(h, entry) == <<entry>>

\* this.history.push(message)
addToHistory(h, entry) == Append(h, entry)

(* ------------------------- AIAgent.getState ---------------------------- *)
\* the snapshot notifyUpdate hands to every subscriber
getState(ip, st, h) == [isProcessing |-> ip, status |-> st, history |-> h]

\* the agent's subscription to the facade (setEmulator) republishes the
\* agent state whenever the facade publishes
FacadeNotifiesAgent ==
  published' = IF agentEmulator THEN getState(isProcessing, status, history)
               ELSE published

(* ----------------------- V86Wrapper: keyboard -------------------------- *)
\* sendText starts a drain only when none is marked as running
sendTextStartsDrain == ~processingKeyboard

\* processKeyboardBuffer returns at once when a drain runs or nothing is queued
processKeyboardBufferReturns(buf) == processingKeyboard \/ Len(buf) = 0

\* variant: the flag is cleared before the loop suspends
flagWhilePacing_Cleared == FALSE

\* the flag a drain loop leaves behind when it suspends at its pacing delay
flagWhilePacing == TRUE

\* variant: the new characters are put in front of the queued ones
enqueue_Front(buf, text) == text \o buf

\* this.keyboardBuffer.push(...text.split(''))
enqueue(buf, text) == buf \o text

\* V86Wrapper.sendText(text), with the synchronous start of
\* processKeyboardBuffer: the first character is injected before the call
\* returns
sendText(text) ==
  /\ issued' = issued \o text
  /\ IF ~emulator \/ ~isRunning
       THEN UNCHANGED <<keyboardBuffer, processingKeyboard, activeDrains,
                        injected, accepted, queuedWhileDraining>>
       ELSE LET buf == enqueue(keyboardBuffer, text) IN
            /\ accepted' = accepted \o text
            /\ queuedWhileDraining' = (queuedWhileDraining \/ activeDrains > 0)
            /\ IF sendTextStartsDrain /\ ~processKeyboardBufferReturns(buf)
                 THEN /\ processingKeyboard' = flagWhilePacing
                      /\ injected' = Append(injected, Head(buf))
                      /\ keyboardBuffer' = Tail(buf)
                      /\ activeDrains' = activeDrains + 1
                 ELSE /\ keyboardBuffer' = buf
                      /\ UNCHANGED <<processingKeyboard, activeDrains, injected>>

\* one resumption of a processKeyboardBuffer loop after its 50 ms delay
processKeyboardBuffer ==
  /\ activeDrains > 0
  /\ IF Len(keyboardBuffer) > 0
       THEN IF emulator
              THEN \* keyboard_send_text(char), then the next delay
                   /\ injected' = Append(injected, Head(keyboardBuffer))
                   /\ keyboardBuffer' = Tail(keyboardBuffer)
                   /\ processingKeyboard' = flagWhilePacing
                   /\ UNCHANGED activeDrains
              ELSE \* this.emulator is null: the call throws after the shift,
                   \* the catch logs it and the loop ends
                   /\ keyboardBuffer' = Tail(keyboardBuffer)
                   /\ processingKeyboard' = FALSE
                   /\ activeDrains' = activeDrains - 1
                   /\ UNCHANGED injected
       ELSE /\ processingKeyboard' = FALSE
            /\ activeDrains' = activeDrains - 1
            /\ UNCHANGED <<keyboardBuffer, injected>>
  /\ UNCHANGED <<issued, accepted, queuedWhileDraining>>

(* ---------------------- V86Wrapper: subscribers ------------------------ *)
\* V86Wrapper.getState(): the snapshot handed to subscribers (osType,
\* memoryUsage and networkActive, which no handler followed here writes, are
\* left out)
vmGetState ==
  [isRunning |-> isRunning, screenshot |-> lastScreenshot, status |-> vmStatus,
   bootProgress |-> bootProgress, lastAction |-> lastAction]

\* placeholder for "no snapshot received yet"
NoSnapshot ==
  [isRunning |-> FALSE, screenshot |-> "null", status |-> "none",
   bootProgress |-> 0, lastAction |-> "none"]

\* a callback nobody has registered yet: whether it is subscribed, how many
\* calls it got (0, 1, more), the snapshot at the time of subscription (kept
\* until the first call), whether the first call carried that snapshot, and
\* the snapshot of the latest call
NewObserver ==
  [subscribed |-> FALSE, calls |-> 0, at |-> NoSnapshot,
   firstAtSubscription |-> FALSE, last |-> NoSnapshot]

\* one invocation of the observed callback with snapshot snap
deliver(obs, snap) ==
  IF ~obs.subscribed
    THEN obs
    ELSE [subscribed |-> TRUE,
          calls |-> IF obs.calls = 0 THEN 1 ELSE 2,
          at |-> NoSnapshot,
          firstAtSubscription |-> IF obs.calls = 0 THEN snap = obs.at
                                  ELSE obs.firstAtSubscription,
          last |-> snap]

\* V86Wrapper.notifyUpdate() at the end of a step: every subscriber gets the
\* snapshot of the state the step leaves behind
notifyUpdate ==
  /\ observer' = deliver(observer, vmGetState')
  /\ FacadeNotifiesAgent

\* variant: subscribing only registers the callback
onUpdateCallsBack_Never == FALSE

\* onUpdate calls the new callback once before it returns
onUpdateCallsBack == TRUE

(* ---------------------- V86Wrapper: screenshot ------------------------- *)
\* whether takeScreenshot returns an image: there is a running session and a
\* container, under which the engine has put its canvas
takeScreenshotResult == emulator /\ isRunning /\ screenContainer

\* V86Wrapper.takeScreenshot(), its effect on the facade
takeScreenshot ==
  /\ lastScreenshot' = IF takeScreenshotResult THEN "img"
                       ELSE lastScreenshot
  /\ observer' = IF takeScreenshotResult
                   THEN deliver(observer,
                                [vmGetState EXCEPT !.screenshot = "img"])
                   ELSE observer

(* ------------------------ V86Wrapper: engine --------------------------- *)
\* the events setupEventListeners subscribes to, each tracked in eventListeners
WrapperEvents ==
  {"emulator-ready", "emulator-stopped", "download-progress", "download-error",
   "boot", "error", "screen-set-mode", "screen-set-size-graphical"}

\* the two listeners init() adds on the engine itself for its readiness wait
InitListeners == {"init:emulator-ready", "init:error"}

\* no engine object has been constructed
NoEngine == [made |-> FALSE, listeners |-> {}, ready |-> FALSE]

\* new V86Class(options), setupEventListeners() and the two add_listener calls
\* of the readiness wait
NewEngine == [made |-> TRUE, listeners |-> WrapperEvents \cup InitListeners,
              ready |-> FALSE]

\* the boot assets the final options name (linux profile: BIOS, VGA BIOS, a
\* cdrom image as boot medium, and the WASM binary of the default options)
BootAssets == {"bios", "vga_bios", "cdrom", "wasm_path"}

\* variant: the WASM binary is not probed
filesToCheck_NoWasm == <<"bios", "vga_bios", "cdrom">>

\* the URLs verifyRequiredFiles probes, in order
filesToCheck == <<"bios", "vga_bios", "cdrom", "wasm_path">>

\* the state of an init() call: index of the asset probed next, the asset the
\* server does not serve (if any), whether the engine constructor ran,
\* whether stop(), destroy() or an "emulator-stopped" event came while it
\* waits for readiness, and why the call was rejected
NewInit == [probe |-> 0, bad |-> "none", built |-> FALSE,
            interrupted |-> FALSE, failure |-> "none"]

\* the readiness wait of init() is interrupted by a step that stops the session
interruptWait == IF initPc = "ready"
                   THEN [initInfo EXCEPT !.interrupted = TRUE]
                   ELSE initInfo

\* variant: init() leaves the running flag alone
runningAfterConstruct_Unset == FALSE

\* this.isRunning = true, before the readiness wait
runningAfterConstruct == TRUE

\* variant: the catch block publishes the generic error status
statusAfterInitFailure_Error == "error"

\* the status the catch block of init() publishes
statusAfterInitFailure == "initialization failed"

\* Math.min(this.bootProgress + 5, 95)
progressAfterDownload(p) == IF p + 5 < 95 THEN p + 5 ELSE 95

(* ----------------------- V86Wrapper: lifecycle ------------------------- *)
agentFields == <<status, isProcessing, history, commandQueue,
                 isExecutingCommand, abortController, agentEmulator, starts,
                 turns, requests>>

keyVars == <<keyCall, nKeys>>

initInProgress == initPc \in {"script", "verify", "ready"}

\* init(container): the checks, 'loading v86', then the script load (awaited
\* when window.V86 is not there yet) or straight on to the asset probes.
\* Callers keep the facade's contract: no init() while one is pending or while
\* an engine exists (init is not called twice without a destroy in between).
VmInit(attached) ==
  /\ nInits < MaxInits
  /\ ~initInProgress
  /\ ~emulator
  /\ nInits' = nInits + 1
  /\ destroyed' = FALSE
  /\ IF ~attached
       THEN /\ initPc' = "failed"
            /\ initInfo' = [NewInit EXCEPT !.failure = "detached"]
            /\ UNCHANGED <<screenContainer, vmStatus>>
       ELSE /\ screenContainer' = TRUE
            /\ \E bad \in {"none"} \cup BootAssets :
                 initInfo' = [NewInit EXCEPT !.bad = bad, !.probe = 1]
            /\ IF scriptLoaded
                 THEN vmStatus' = "creating emulator" /\ initPc' = "verify"
                 ELSE vmStatus' = "loading v86" /\ initPc' = "script"
  /\ UNCHANGED <<emulator, isRunning, lastScreenshot, bootProgress, lastAction,
                 eventListeners, engine, scriptLoaded, destroyedWithQueue,
                 nSendText, opThrew, nProgress>>
  /\ UNCHANGED keyVars
  /\ UNCHANGED keyboardVars
  /\ UNCHANGED <<agentFields, libVars>>
  /\ IF attached THEN notifyUpdate ELSE UNCHANGED <<published, observer>>

\* loadV86Scripts settles: onload with the global defined, onload without it,
\* or onerror
VmInitScript(outcome) ==
  /\ initPc = "script"
  /\ CASE outcome = "loaded" ->
            /\ scriptLoaded' = TRUE
            /\ vmStatus' = "creating emulator"
            /\ initPc' = "verify"
            /\ UNCHANGED initInfo
       [] outcome = "undefined" ->
            /\ vmStatus' = "v86 not available"
            /\ initPc' = "failed"
            /\ initInfo' = [initInfo EXCEPT !.failure = "unavailable"]
            /\ UNCHANGED scriptLoaded
       [] outcome = "error" ->
            /\ vmStatus' = "failed to load v86"
            /\ initPc' = "failed"
            /\ initInfo' = [initInfo EXCEPT !.failure = "script"]
            /\ UNCHANGED scriptLoaded
  /\ UNCHANGED <<emulator, isRunning, lastScreenshot, screenContainer,
                 bootProgress, lastAction, eventListeners, engine,
                 destroyedWithQueue, nSendText, nInits, destroyed, opThrew,
                 nProgress>>
  /\ UNCHANGED keyVars
  /\ UNCHANGED keyboardVars
  /\ UNCHANGED <<agentFields, libVars>>
  /\ notifyUpdate

\* one HEAD probe of verifyRequiredFiles settles. A failed probe rejects
\* init(); after the last successful one the engine is constructed, the
\* listeners are registered and the wait for readiness begins
VmInitVerify ==
  /\ initPc = "verify"
  /\ IF filesToCheck[initInfo.probe] = initInfo.bad
       THEN /\ vmStatus' = statusAfterInitFailure
            /\ initPc' = "failed"
            /\ initInfo' = [initInfo EXCEPT !.failure = "asset"]
            /\ UNCHANGED <<emulator, isRunning, eventListeners, engine>>
       ELSE IF initInfo.probe < Len(filesToCheck)
              THEN /\ initInfo' = [initInfo EXCEPT !.probe = @ + 1]
                   /\ UNCHANGED <<emulator, isRunning, eventListeners, engine,
                                  vmStatus, initPc>>
              ELSE /\ emulator' = TRUE
                   /\ engine' = NewEngine
                   /\ eventListeners' = eventListeners \cup WrapperEvents
                   /\ isRunning' = runningAfterConstruct
                   /\ vmStatus' = "initializing"
                   /\ initPc' = "ready"
                   /\ initInfo' = [initInfo EXCEPT !.built = TRUE]
  /\ UNCHANGED <<lastScreenshot, screenContainer, bootProgress, lastAction,
                 scriptLoaded, destroyedWithQueue, nSendText, nInits,
                 destroyed, opThrew, nProgress>>
  /\ UNCHANGED keyVars
  /\ UNCHANGED keyboardVars
  /\ UNCHANGED <<agentFields, libVars>>
  /\ IF initPc' = "verify" THEN UNCHANGED <<published, observer>>
                           ELSE notifyUpdate

\* the 30 s timer of the readiness wait fires: the promise rejects and the
\* catch block publishes the failure
VmInitTimeout ==
  /\ initPc = "ready"
  /\ vmStatus' = statusAfterInitFailure
  /\ initPc' = "failed"
  /\ initInfo' = [initInfo EXCEPT !.failure = "timeout",
                                  !.interrupted = FALSE]
  /\ UNCHANGED <<emulator, isRunning, lastScreenshot, screenContainer,
                 bootProgress, lastAction, eventListeners, engine,
                 scriptLoaded, destroyedWithQueue, nSendText, nInits,
                 destroyed, opThrew, nProgress>>
  /\ UNCHANGED keyVars
  /\ UNCHANGED keyboardVars
  /\ UNCHANGED <<agentFields, libVars>>
  /\ notifyUpdate

(* --------------------- V86Wrapper: engine events ----------------------- *)
\* what no handler of an engine event touches
eventFrame ==
  /\ UNCHANGED <<emulator, lastScreenshot, screenContainer, eventListeners,
                 scriptLoaded, destroyedWithQueue, nSendText, nInits,
                 destroyed, opThrew>>
  /\ UNCHANGED keyVars
  /\ UNCHANGED keyboardVars
  /\ UNCHANGED agentFields
  /\ UNCHANGED libVars

\* the engine emits "emulator-ready" (once per engine): the facade's listener
\* publishes 'ready', then the listener of a waiting init() resolves it
EmulatorReady ==
  /\ engine.made /\ ~engine.ready
  /\ engine' = [engine EXCEPT !.ready = TRUE]
  /\ IF "emulator-ready" \in engine.listeners
       THEN /\ vmStatus' = "ready"
            /\ bootProgress' = 100
            /\ lastAction' = "System ready"
       ELSE UNCHANGED <<vmStatus, bootProgress, lastAction>>
  /\ IF "init:emulator-ready" \in engine.listeners /\ initPc = "ready"
       THEN /\ initPc' = "done"
            /\ initInfo' = [initInfo EXCEPT !.interrupted = FALSE]
       ELSE UNCHANGED <<initPc, initInfo>>
  /\ UNCHANGED <<isRunning, nProgress>>
  /\ eventFrame
  /\ IF "emulator-ready" \in engine.listeners
       THEN notifyUpdate
       ELSE UNCHANGED <<published, observer>>

\* the engine emits "emulator-stopped"
EmulatorStopped ==
  /\ "emulator-stopped" \in engine.listeners
  /\ isRunning' = FALSE
  /\ vmStatus' = "stopped"
  /\ lastAction' = "System stopped"
  /\ initInfo' = interruptWait
  /\ UNCHANGED <<bootProgress, engine, initPc, nProgress>>
  /\ eventFrame
  /\ notifyUpdate

\* the engine emits "download-progress"
DownloadProgress ==
  /\ "download-progress" \in engine.listeners
  /\ nProgress < MaxProgress
  /\ nProgress' = nProgress + 1
  /\ vmStatus' = "downloading"
  /\ bootProgress' = progressAfterDownload(bootProgress)
  /\ lastAction' = "Downloading"
  /\ UNCHANGED <<isRunning, engine, initPc, initInfo>>
  /\ eventFrame
  /\ notifyUpdate

\* the engine emits "download-error"
DownloadError ==
  /\ "download-error" \in engine.listeners
  /\ vmStatus' = "download error"
  /\ lastAction' = "Failed to download"
  /\ UNCHANGED <<isRunning, bootProgress, engine, initPc, initInfo, nProgress>>
  /\ eventFrame
  /\ notifyUpdate

\* the engine emits "boot"
Boot ==
  /\ "boot" \in engine.listeners
  /\ vmStatus' = "booting"
  /\ lastAction' = "System booting"
  /\ UNCHANGED <<isRunning, bootProgress, engine, initPc, initInfo, nProgress>>
  /\ eventFrame
  /\ notifyUpdate

\* variant: an engine error ends the session
runningAfterError_Stopped == FALSE

\* the "error" handler does not write isRunning
runningAfterError == isRunning

\* the engine emits "error": the facade's listener publishes 'error'; the
\* listener of a waiting init() rejects it, and the catch block of init()
\* then publishes the failure
EngineError ==
  /\ {"error", "init:error"} \cap engine.listeners # {}
  /\ LET handled == "error" \in engine.listeners
         rejects == "init:error" \in engine.listeners /\ initPc = "ready"
     IN  /\ lastAction' = IF handled THEN "Error" ELSE lastAction
         /\ vmStatus' = IF rejects THEN statusAfterInitFailure
                        ELSE IF handled THEN "error" ELSE vmStatus
         /\ isRunning' = IF handled THEN runningAfterError ELSE isRunning
         /\ initPc' = IF rejects THEN "failed" ELSE initPc
         /\ initInfo' = IF rejects
                          THEN [initInfo EXCEPT !.failure = "error",
                                                !.interrupted = FALSE]
                          ELSE initInfo
  /\ UNCHANGED <<bootProgress, engine, nProgress>>
  /\ eventFrame
  /\ notifyUpdate

\* the engine emits "screen-set-mode"
ScreenSetMode ==
  /\ "screen-set-mode" \in engine.listeners
  /\ lastAction' = "Screen mode changed"
  /\ UNCHANGED <<isRunning, vmStatus, bootProgress, engine, initPc, initInfo,
                 nProgress>>
  /\ eventFrame
  /\ notifyUpdate

\* the engine emits "screen-set-size-graphical"
ScreenSetSize ==
  /\ "screen-set-size-graphical" \in engine.listeners
  /\ lastAction' = "Screen size set"
  /\ UNCHANGED <<isRunning, vmStatus, bootProgress, engine, initPc, initInfo,
                 nProgress>>
  /\ eventFrame
  /\ notifyUpdate

(* -------------------- V86Wrapper: control operations ------------------- *)
\* what stop(), resume() and restart() leave alone
controlFrame ==
  /\ UNCHANGED <<emulator, lastScreenshot, vmStatus, screenContainer,
                 bootProgress, lastAction, eventListeners, engine, initPc,
                 scriptLoaded, destroyedWithQueue, nSendText, nInits,
                 destroyed, nProgress>>
  /\ UNCHANGED keyVars
  /\ UNCHANGED keyboardVars
  /\ UNCHANGED agentFields
  /\ UNCHANGED libVars

\* a method is called on this.emulator while it is null: a TypeError leaves
\* the operation
nullDereference ==
  /\ opThrew' = TRUE
  /\ UNCHANGED <<isRunning, initInfo, published, observer>>
  /\ controlFrame

stopReturns == ~emulator \/ ~isRunning

\* V86Wrapper.stop()
VmStop ==
  IF stopReturns
    THEN UNCHANGED vars
    ELSE /\ isRunning' = FALSE
         /\ initInfo' = interruptWait
         /\ UNCHANGED opThrew
         /\ controlFrame
         /\ notifyUpdate

resumeReturns == ~emulator \/ isRunning

\* V86Wrapper.resume()
VmResume ==
  IF resumeReturns
    THEN UNCHANGED vars
    ELSE /\ isRunning' = TRUE
         /\ UNCHANGED <<opThrew, initInfo>>
         /\ controlFrame
         /\ notifyUpdate

\* variant: restart() without its check
restartReturns_Never == FALSE

restartReturns == ~emulator

\* V86Wrapper.restart()
VmRestart ==
  IF restartReturns
    THEN UNCHANGED vars
    ELSE IF ~emulator
           THEN nullDereference
           ELSE /\ isRunning' = TRUE
                /\ UNCHANGED <<opThrew, initInfo>>
                /\ controlFrame
                /\ notifyUpdate

\* remove_listener for every listener the facade has on record
removeListeners(registered, recorded) == registered \ recorded

destroyReturns == ~emulator

\* V86Wrapper.destroy(). A call that finds no engine returns at once; it
\* counts as a completed destroy() unless an init() is still under way
VmDestroy ==
  IF destroyReturns
    THEN /\ destroyed' = (destroyed \/ ~initInProgress)
         /\ UNCHANGED <<emulator, isRunning, lastScreenshot, vmStatus,
                        screenContainer, bootProgress, lastAction,
                        eventListeners, engine, initPc, initInfo, scriptLoaded,
                        destroyedWithQueue, nSendText, nInits, opThrew,
                        nProgress, published, observer>>
         /\ UNCHANGED keyVars
         /\ UNCHANGED keyboardVars
         /\ UNCHANGED <<agentFields, libVars>>
    ELSE /\ engine' = [engine EXCEPT
                         !.listeners = removeListeners(@, eventListeners)]
         /\ eventListeners' = {}
         /\ emulator' = FALSE
         /\ screenContainer' = FALSE
         /\ isRunning' = FALSE
         /\ lastScreenshot' = "null"
         /\ destroyedWithQueue' = (destroyedWithQueue \/ Len(keyboardBuffer) > 0)
         /\ destroyed' = TRUE
         /\ initInfo' = interruptWait
         /\ UNCHANGED <<vmStatus, bootProgress, lastAction, initPc,
                        scriptLoaded, nSendText, nInits, opThrew, nProgress>>
         /\ UNCHANGED keyVars
         /\ UNCHANGED keyboardVars
         /\ UNCHANGED <<agentFields, libVars>>
         /\ notifyUpdate

\* what the keyboard and key operations leave alone
inputFrame ==
  UNCHANGED <<emulator, isRunning, lastScreenshot, vmStatus, screenContainer,
              bootProgress, lastAction, eventListeners, engine, initPc,
              initInfo, scriptLoaded, destroyedWithQueue, nInits, destroyed,
              opThrew, nProgress, observer, libVars>>

\* a caller other than the agent types text through the facade
VmSendText(text) ==
  /\ nSendText < MaxSendText
  /\ nSendText' = nSendText + 1
  /\ sendText(text)
  /\ inputFrame
  /\ UNCHANGED keyVars
  /\ UNCHANGED agentVars

\* the pacing timer of a drain loop fires
DrainStep ==
  /\ processKeyboardBuffer
  /\ inputFrame
  /\ UNCHANGED nSendText
  /\ UNCHANGED keyVars
  /\ UNCHANGED agentVars

\* a caller other than the agent takes a screenshot
VmTakeScreenshot ==
  /\ takeScreenshot
  /\ published' = IF takeScreenshotResult /\ agentEmulator
                    THEN getState(isProcessing, status, history)
                    ELSE published
  /\ UNCHANGED <<emulator, isRunning, vmStatus, screenContainer, bootProgress,
                 lastAction, eventListeners, engine, initPc, initInfo,
                 scriptLoaded, destroyedWithQueue, nSendText, nInits,
                 destroyed, opThrew, nProgress>>
  /\ UNCHANGED keyVars
  /\ UNCHANGED keyboardVars
  /\ UNCHANGED <<agentFields, libVars>>

\* V86Wrapper.onUpdate(callback) for a callback not subscribed before
VmOnUpdate ==
  /\ ~observer.subscribed
  /\ LET registered == [observer EXCEPT !.subscribed = TRUE, !.at = vmGetState]
     IN  observer' = IF onUpdateCallsBack THEN deliver(registered, vmGetState)
                     ELSE registered
  /\ UNCHANGED <<emulator, isRunning, lastScreenshot, vmStatus,
                 screenContainer, bootProgress, lastAction, eventListeners,
                 engine, initPc, initInfo, scriptLoaded, destroyedWithQueue,
                 nSendText, nInits, destroyed, opThrew, nProgress>>
  /\ UNCHANGED keyVars
  /\ UNCHANGED keyboardVars
  /\ UNCHANGED <<agentVars, libVars>>

(* ------------------------- V86Wrapper: keys ---------------------------- *)
KeyNames ==
  {"Enter", "Tab", "Escape", "Backspace", "ArrowUp", "ArrowDown", "ArrowLeft",
   "ArrowRight", "Home", "End", "PageUp", "PageDown", "Delete", "Insert",
   "ControlLeft", "AltLeft", "ShiftLeft", "MetaLeft"}

\* the scancode table of sendSpecialKey (0xE0 = 224 prefixes extended keys)
keyMap ==
  [name \in KeyNames |->
     CASE name = "Enter" -> <<28>>
       [] name = "Tab" -> <<15>>
       [] name = "Escape" -> <<1>>
       [] name = "Backspace" -> <<14>>
       [] name = "ArrowUp" -> <<224, 72>>
       [] name = "ArrowDown" -> <<224, 80>>
       [] name = "ArrowLeft" -> <<224, 75>>
       [] name = "ArrowRight" -> <<224, 77>>
       [] name = "Home" -> <<224, 71>>
       [] name = "End" -> <<224, 79>>
       [] name = "PageUp" -> <<224, 73>>
       [] name = "PageDown" -> <<224, 81>>
       [] name = "Delete" -> <<224, 83>>
       [] name = "Insert" -> <<224, 82>>
       [] name = "ControlLeft" -> <<29>>
       [] name = "AltLeft" -> <<56>>
       [] name = "ShiftLeft" -> <<42>>
       [] name = "MetaLeft" -> <<224, 91>>]

\* key names and raw scancodes callers pass ("F13" is not in the table)
KeysPressed == {"Enter", "ArrowUp", "F13"}

RawKeys == {28}

\* code | 0x80 on a scancode byte
releaseCode(code) == IF (code \div 128) % 2 = 1 THEN code ELSE code + 128

\* the latest sendKey/sendSpecialKey call: its argument, the codes still to
\* be sent, the delay it is suspended at, the scancodes it has passed to the
\* engine, whether a session was running when it was made, and how it ended
NoKeyCall ==
  [name |-> "none", todo |-> <<>>, awaiting |-> "none", sent |-> <<>>,
   accepted |-> FALSE, outcome |-> "none"]

sendKeyReturns == ~emulator \/ ~isRunning

\* V86Wrapper.sendKey(key). Callers issue key calls one after the other.
VmSendKey(key) ==
  /\ nKeys < MaxKeys
  /\ keyCall.outcome # "running"
  /\ nKeys' = nKeys + 1
  /\ keyCall' = [NoKeyCall EXCEPT
                   !.name = "sendKey",
                   !.sent = IF sendKeyReturns THEN <<>> ELSE <<key>>,
                   !.accepted = emulator /\ isRunning,
                   !.outcome = "returned"]
  /\ inputFrame
  /\ UNCHANGED nSendText
  /\ UNCHANGED keyboardVars
  /\ UNCHANGED agentVars

\* variant: the guard tests the engine only
sendSpecialKeyReturns_EngineOnly == ~emulator

sendSpecialKeyReturns == ~emulator \/ ~isRunning

\* V86Wrapper.sendSpecialKey(name) up to its first delay: the press of the
\* first code is sent before the call suspends
VmSendSpecialKey(name) ==
  /\ nKeys < MaxKeys
  /\ keyCall.outcome # "running"
  /\ nKeys' = nKeys + 1
  /\ IF sendSpecialKeyReturns \/ name \notin DOMAIN keyMap
       THEN keyCall' = [NoKeyCall EXCEPT !.name = name,
                                         !.accepted = emulator /\ isRunning,
                                         !.outcome = "returned"]
       ELSE keyCall' = [name |-> name, todo |-> keyMap[name],
                        awaiting |-> "press",
                        sent |-> <<Head(keyMap[name])>>,
                        accepted |-> emulator /\ isRunning,
                        outcome |-> "running"]
  /\ inputFrame
  /\ UNCHANGED nSendText
  /\ UNCHANGED keyboardVars
  /\ UNCHANGED agentVars

\* a 10 ms delay of sendSpecialKey ends: after a press the release is sent,
\* after a release the press of the next code, or the call returns. A call
\* on this.emulator after destroy() throws.
KeyStep ==
  /\ keyCall.outcome = "running"
  /\ IF keyCall.awaiting = "release" /\ Len(keyCall.todo) = 1
       THEN keyCall' = [keyCall EXCEPT !.todo = <<>>, !.awaiting = "none",
                                       !.outcome = "returned"]
       ELSE IF ~emulator
              THEN keyCall' = [keyCall EXCEPT !.awaiting = "none",
                                              !.outcome = "threw"]
              ELSE IF keyCall.awaiting = "press"
                     THEN keyCall' =
                            [keyCall EXCEPT
                               !.sent = Append(@, releaseCode(Head(keyCall.todo))),
                               !.awaiting = "release"]
                     ELSE keyCall' =
                            [keyCall EXCEPT
                               !.todo = Tail(@),
                               !.sent = Append(@, keyCall.todo[2]),
                               !.awaiting = "press"]
  /\ inputFrame
  /\ UNCHANGED <<nSendText, nKeys>>
  /\ UNCHANGED keyboardVars
  /\ UNCHANGED agentVars

(* ----------------------- V86Wrapper: next state ------------------------ *)
\* the keyboard path of the facade with its lifecycle
FacadeNext ==
  \/ \E attached \in BOOLEAN : VmInit(attached)
  \/ \E outcome \in {"loaded", "undefined", "error"} : VmInitScript(outcome)
  \/ VmInitVerify
  \/ EmulatorReady
  \/ VmInitTimeout
  \/ EmulatorStopped
  \/ VmStop
  \/ VmResume
  \/ VmRestart
  \/ VmDestroy
  \/ \E text \in Texts : VmSendText(text)
  \/ DrainStep

\* the lifecycle of the facade with the engine's events and its subscribers
LifecycleNext ==
  \/ \E attached \in BOOLEAN : VmInit(attached)
  \/ \E outcome \in {"loaded", "undefined", "error"} : VmInitScript(outcome)
  \/ VmInitVerify
  \/ VmInitTimeout
  \/ EmulatorReady
  \/ EmulatorStopped
  \/ DownloadProgress
  \/ DownloadError
  \/ Boot
  \/ EngineError
  \/ ScreenSetMode
  \/ ScreenSetSize
  \/ VmStop
  \/ VmResume
  \/ VmRestart
  \/ VmDestroy
  \/ VmOnUpdate
  \/ VmTakeScreenshot

\* the control operations of the facade on a session that exists or has been
\* destroyed, with the timers of its coroutines and the engine's error event
ControlNext ==
  \/ VmStop
  \/ VmResume
  \/ VmRestart
  \/ VmDestroy
  \/ VmTakeScreenshot
  \/ \E text \in Texts : VmSendText(text)
  \/ DrainStep
  \/ \E key \in RawKeys : VmSendKey(key)
  \/ \E name \in KeysPressed : VmSendSpecialKey(name)
  \/ KeyStep
  \/ EngineError

(* ------------------------- AIAgent: helpers ---------------------------- *)
facadeRest == <<emulator, isRunning, vmStatus, screenContainer, bootProgress,
                lastAction, eventListeners, initPc, initInfo, keyCall, engine,
                scriptLoaded, destroyedWithQueue, destroyed, opThrew,
                nSendText, nInits, nProgress, nKeys, libVars>>

IsSpace(c) == c \in {" ", "\n"}

RECURSIVE TrimLeft(_)
TrimLeft(s) == IF s = <<>> THEN <<>>
               ELSE IF IsSpace(Head(s)) THEN TrimLeft(Tail(s)) ELSE s

RECURSIVE TrimRight(_)
TrimRight(s) == IF s = <<>> THEN <<>>
                ELSE IF IsSpace(s[Len(s)])
                       THEN TrimRight(SubSeq(s, 1, Len(s) - 1)) ELSE s

\* String.prototype.trim on a sequence of characters
trim(s) == TrimRight(TrimLeft(s))

\* extractCommands: the trimmed inner text of every fenced block, in document
\* order, blocks that are empty after trimming left out
RECURSIVE extractCommands(_)
extractCommands(response) ==
  IF response = <<>> THEN <<>>
  ELSE LET seg == Head(response)
           rest == extractCommands(Tail(response))
       IN IF seg.fenced /\ trim(seg.body) # <<>>
            THEN <<trim(seg.body)>> \o rest
            ELSE rest

\* the history entry processCommandQueue writes for a command
commandEntry(command) ==
  Entry("assistant", "command",
        <<Seg(FALSE, <<"Executing command:">>), Seg(TRUE, command)>>, command)

\* the text processCommandQueue types for a command
commandText(command) == command \o <<"\n">>

nStops == Cardinality({i \in DOMAIN history : history[i].content = StoppedNote})

InFlight(t) == turns[t].pc \notin {"none", "done"}

FreeTurns == {t \in 1..MaxTurns : turns[t].pc = "none"}

FreeStarts == {s \in 1..MaxStarts : starts[s].pc = "none"}

NewTurn == [pc |-> "none", shot |-> FALSE, signal |-> "none",
            outcome |-> "none", reply |-> <<>>, sent |-> 0, shots |-> 0,
            stoppedAt |-> "none", sentAtStop |-> 0, context |-> <<>>,
            body |-> <<>>]

NewStart == [pc |-> "none", shots |-> 0]

\* generateCompletion issues its fetch without the AbortController's signal,
\* so abort() cannot make the pending request reject with an AbortError
fetchHonoursSignal == FALSE

(* -------------------- V86Wrapper: engine options ----------------------- *)
\* OS names are sequences of characters, so that lower-casing is computed
UpperCase == <<"A", "B", "C", "D", "E", "F", "G", "H", "I", "J", "K", "L", "M",
               "N", "O", "P", "Q", "R", "S", "T", "U", "V", "W", "X", "Y", "Z">>

LowerCase == <<"a", "b", "c", "d", "e", "f", "g", "h", "i", "j", "k", "l", "m",
               "n", "o", "p", "q", "r", "s", "t", "u", "v", "w", "x", "y", "z">>

\* String.prototype.toLowerCase, character by character
toLowerCase(s) ==
  [i \in 1..Len(s) |->
     IF \E k \in 1..Len(UpperCase) : UpperCase[k] = s[i]
       THEN LowerCase[CHOOSE k \in 1..Len(UpperCase) : UpperCase[k] = s[i]]
       ELSE s[i]]

LinuxName == <<"l", "i", "n", "u", "x">>

WindowsName == <<"w", "i", "n", "d", "o", "w", "s">>

FreedosName == <<"f", "r", "e", "e", "d", "o", "s">>

\* the OS names a page may construct a facade with
OSNames ==
  { LinuxName, <<"L", "i", "n", "u", "x">>, <<"L", "I", "N", "U", "X">>,
    WindowsName, <<"W", "i", "n", "d", "o", "w", "s">>,
    <<"W", "I", "N", "D", "O", "W", "S">>,
    FreedosName, <<"F", "r", "e", "e", "D", "O", "S">>,
    <<"F", "R", "E", "E", "D", "O", "S">>,
    <<"m", "a", "c", "o", "s">>, <<"w", "i", "n">>, <<"d", "o", "s">>,
    <<"l", "i", "n", "u", "x", " ">>, <<>> }

\* boot_order values
BootCdromFirst == 306

BootHardDiskFirst == 291

BootFloppyFirst == 801

\* variant: the switch compares the name as given
switchKey_CaseSensitive(osType) == osType

\* the value getOSOptions switches on
switchKey(osType) == toLowerCase(osType)

\* getOSOptions()
getOSOptions(osType) ==
  LET key == switchKey(osType)
  IN IF key = LinuxName
       THEN [cdrom |-> "/v86/images/linux.iso", bios |-> "/v86/bios/seabios.bin",
             vga_bios |-> "/v86/bios/vgabios.bin", boot_order |-> BootCdromFirst]
     ELSE IF key = WindowsName
       THEN [hda |-> "/v86/images/windows.img", bios |-> "/v86/bios/seabios.bin",
             vga_bios |-> "/v86/bios/vgabios.bin",
             boot_order |-> BootHardDiskFirst]
     ELSE IF key = FreedosName
       THEN [fda |-> "/v86/images/freedos.img", bios |-> "/v86/bios/seabios.bin",
             vga_bios |-> "/v86/bios/vgabios.bin", boot_order |-> BootFloppyFirst]
     ELSE [cdrom |-> "/v86/images/linux.iso", bios |-> "/v86/bios/seabios.bin",
           vga_bios |-> "/v86/bios/vgabios.bin", boot_order |-> BootCdromFirst]

\* init's defaultOptions (sizes in MB)
defaultOptions ==
  [memory_size |-> 128, vga_memory_size |-> 8, screen_container |-> "container",
   acpi |-> TRUE, autostart |-> TRUE, disable_mouse |-> FALSE,
   disable_keyboard |-> FALSE, wasm_path |-> "/v86/v86.wasm"]

\* { ...a, ...b }: b's keys win
Spread(a, b) ==
  [k \in DOMAIN a \cup DOMAIN b |-> IF k \in DOMAIN b THEN b[k] ELSE a[k]]

\* init's finalOptions
finalOptions(osType, options) ==
  Spread(Spread(defaultOptions, getOSOptions(osType)), options)

NoOptions == [k \in {} |-> 0]

\* the override options callers of init(container, options) pass (531 is
\* 0x213, an order no OS branch carries)
Overrides ==
  { NoOptions,
    [boot_order |-> BootHardDiskFirst], [boot_order |-> BootFloppyFirst],
    [boot_order |-> BootCdromFirst], [boot_order |-> 531],
    [memory_size |-> 64], [cdrom |-> "/v86/images/custom.iso"],
    [memory_size |-> 64, boot_order |-> 531] }

NoBootCall == [pc |-> "none", osType |-> <<>>, options |-> NoOptions,
               final |-> NoOptions, passed |-> NoOptions]

bootFrame ==
  UNCHANGED <<agentVars, facadeVars, parserRun, streamRun, paceRun, page,
              subject>>

\* new V86Wrapper(osType)
NewV86Wrapper(osType) ==
  /\ bootCall.pc = "none"
  /\ bootCall' = [bootCall EXCEPT !.pc = "constructed", !.osType = osType]
  /\ bootFrame

\* init(container, options) up to `await this.verifyRequiredFiles(finalOptions)`
InitOptions(options) ==
  /\ bootCall.pc = "constructed"
  /\ bootCall' = [bootCall EXCEPT !.pc = "verify", !.options = options,
                                  !.final = finalOptions(bootCall.osType, options)]
  /\ bootFrame

\* the probes passed: new V86Class(finalOptions)
InitNewEngine ==
  /\ bootCall.pc = "verify"
  /\ bootCall' = [bootCall EXCEPT !.pc = "built", !.passed = bootCall.final]
  /\ bootFrame

\* a probe failed: init throws and no engine is constructed
InitVerifyFails ==
  /\ bootCall.pc = "verify"
  /\ bootCall' = [bootCall EXCEPT !.pc = "failed"]
  /\ bootFrame

OptionsNext ==
  \/ \E osType \in OSNames : NewV86Wrapper(osType)
  \/ \E options \in Overrides : InitOptions(options)
  \/ InitNewEngine
  \/ InitVerifyFails

(* ----------------------------- js-yaml --------------------------------- *)
\* JavaScript values, tagged by kind; numbers and booleans keep their text
Undefined == [k |-> "undefined", v |-> ""]

Null == [k |-> "null", v |-> ""]

Str(s) == [k |-> "string", v |-> s]

Num(s) == [k |-> "number", v |-> s]

Bool(s) == [k |-> "boolean", v |-> s]

Map(f) == [k |-> "map", v |-> f]

\* the nodes of a YAML document: plain and quoted scalars, block mappings
Plain(text) == [style |-> "plain", text |-> text]

Quoted(text) == [style |-> "quoted", text |-> text]

Block(nodes) == [style |-> "block", nodes |-> nodes]

Numerals == {"0", "64", "128", "123"}

\* the core schema's implicit resolution of a plain scalar
resolvePlain(text) ==
  IF text \in {"", "null", "~"} THEN Null
  ELSE IF text \in {"true", "false"} THEN Bool(text)
  ELSE IF text \in Numerals THEN Num(text)
  ELSE Str(text)

loadScalar(node) ==
  IF node.style = "quoted" THEN Str(node.text) ELSE resolvePlain(node.text)

loadNode(node) ==
  IF node.style = "block"
    THEN Map([key \in DOMAIN node.nodes |-> loadScalar(node.nodes[key])])
    ELSE loadScalar(node)

\* yaml.load throws a YAMLException on text that is not YAML
loadThrows(content) == content.kind = "malformed"

\* yaml.load(content): undefined for an empty document
load(content) ==
  IF content.kind = "empty" THEN Undefined
  ELSE IF content.kind = "scalar" THEN loadScalar(content.node)
  ELSE Map([key \in DOMAIN content.nodes |-> loadNode(content.nodes[key])])

\* variant: strings are always written plain
quoteString_Never(s) == FALSE

\* yaml.dump quotes a string that a plain scalar would not resolve to
quoteString(s) == resolvePlain(s) # Str(s)

dumpScalar(value) ==
  IF value.k = "string"
    THEN IF quoteString(value.v) THEN Quoted(value.v) ELSE Plain(value.v)
  ELSE IF value.k = "null" THEN Plain("null")
  ELSE Plain(value.v)

\* yaml.dump leaves out the keys whose value is undefined
definedKeys(f) == {key \in DOMAIN f : f[key] # Undefined}

dumpNode(value) ==
  IF value.k = "map"
    THEN Block([key \in definedKeys(value.v) |-> dumpScalar(value.v[key])])
    ELSE dumpScalar(value)

\* yaml.dump(config)
dump(value) ==
  [kind |-> "mapping",
   nodes |-> [key \in definedKeys(value.v) |-> dumpNode(value.v[key])]]

(* --------------------------- PeppaParser ------------------------------- *)
\* ToBoolean
Truthy(value) ==
  IF value.k = "string" THEN value.v # ""
  ELSE IF value.k = "number" THEN value.v # "0"
  ELSE IF value.k = "boolean" THEN value.v = "true"
  ELSE value.k = "map"

Nullish(value) == value.k \in {"undefined", "null"}

\* value.key of a value that is not null or undefined
Get(value, key) ==
  IF value.k = "map" /\ key \in DOMAIN value.v THEN value.v[key] ELSE Undefined

\* value?.key
OptGet(value, key) == IF Nullish(value) THEN Undefined ELSE Get(value, key)

\* a || b
OrElse(a, b) == IF Truthy(a) THEN a ELSE b

\* a !== undefined ? a : b
DefinedOr(a, b) == IF a # Undefined THEN a ELSE b

\* variant: task is tested first
requiredFields_TaskFirst == <<"task", "name", "os", "aiModel">>

\* the required fields, in the order parse tests them
requiredFields == <<"name", "os", "aiModel", "task">>

osTypes == {Str("linux"), Str("windows"), Str("freedos")}

aiModels == {Str("deepseek"), Str("gemini"), Str("claude")}

Thrown(message) == [ok |-> FALSE, error |-> message, config |-> Undefined]

\* the catch block of parse prefixes the message of whatever was thrown
parseFailure(message) ==
  Thrown(<<"Failed to parse .peppa file: ">> \o message)

\* the config object parse builds
makeConfig(parsed) ==
  LET options == Get(parsed, "options")
  IN Map([name |-> Get(parsed, "name"),
          description |-> OrElse(Get(parsed, "description"), Str("")),
          os |-> Get(parsed, "os"),
          aiModel |-> Get(parsed, "aiModel"),
          task |-> Get(parsed, "task"),
          systemPrompt |-> OrElse(Get(parsed, "systemPrompt"), Undefined),
          options |->
            Map([memory |-> OrElse(OptGet(options, "memory"), Undefined),
                 vgaMemory |-> OrElse(OptGet(options, "vgaMemory"), Undefined),
                 networkEnabled |->
                   DefinedOr(OptGet(options, "networkEnabled"), Bool("true")),
                 persistState |->
                   DefinedOr(OptGet(options, "persistState"), Bool("false")),
                 autostart |->
                   DefinedOr(OptGet(options, "autostart"), Bool("true"))])])

\* PeppaParser.parse(content)
parse(content) ==
  IF loadThrows(content) THEN parseFailure(<<"YAMLException">>)
  ELSE
    LET parsed == load(content)
        missing == {i \in 1..Len(requiredFields) :
                      ~Truthy(Get(parsed, requiredFields[i]))}
        first == CHOOSE i \in missing : \A j \in missing : i <= j
    IN IF Nullish(parsed)
         THEN \* parsed.name throws a TypeError
              parseFailure(<<"Cannot read properties of ", parsed.k,
                             " (reading '", "name", "')">>)
       ELSE IF missing # {}
         THEN parseFailure(<<"Missing required field: ", requiredFields[first]>>)
       ELSE IF Get(parsed, "os") \notin osTypes
         THEN parseFailure(
                <<"Invalid OS type. Must be one of: linux, windows, freedos">>)
       ELSE IF Get(parsed, "aiModel") \notin aiModels
         THEN parseFailure(
                <<"Invalid AI model. Must be one of: deepseek, gemini, claude">>)
       ELSE [ok |-> TRUE, error |-> <<>>, config |-> makeConfig(parsed)]

\* PeppaParser.generate(config)
generate(config) == dump(config)

\* the values a document gives a field: key absent, or a scalar node
Absent == [style |-> "absent", text |-> ""]

NameNodes == {Absent, Plain("demo"), Plain(""), Quoted(""), Plain("0"),
              Quoted("true")}

OsNodes == {Absent, Plain("linux"), Plain("freedos"), Plain("Linux"),
            Quoted("")}

ModelNodes == {Absent, Plain("deepseek"), Plain("claude"), Plain("gpt")}

TaskNodes == {Absent, Plain("list files"), Plain("false")}

TextNodes == {Absent, Plain("text")}

OptionNodes ==
  {Absent, Plain("128"),
   Block([networkEnabled |-> Plain("false")]),
   Block([networkEnabled |-> Plain("null"), memory |-> Plain("0")]),
   Block([persistState |-> Plain("true"), autostart |-> Plain("false"),
          memory |-> Plain("128")])}

\* a block mapping of the keys that are present
Mapping(f) ==
  [kind |-> "mapping",
   nodes |-> [key \in {x \in DOMAIN f : f[x] # Absent} |-> f[key]]]

\* the .peppa documents handed to parse
Documents ==
  { Mapping([name |-> n, os |-> o, aiModel |-> m, task |-> t,
             description |-> d, systemPrompt |-> p, options |-> op]) :
      n \in NameNodes, o \in OsNodes, m \in ModelNodes, t \in TaskNodes,
      d \in TextNodes, p \in TextNodes, op \in OptionNodes }
  \cup { [kind |-> "empty"], [kind |-> "malformed"],
         [kind |-> "scalar", node |-> Plain("demo")],
         [kind |-> "scalar", node |-> Plain("null")] }

NoParserRun == [pc |-> "none", doc |-> [kind |-> "empty"],
                first |-> Thrown(<<>>), text |-> [kind |-> "empty"],
                second |-> Thrown(<<>>)]

parserFrame ==
  UNCHANGED <<agentVars, facadeVars, bootCall, streamRun, paceRun, page,
              subject>>

\* the page parses an uploaded document
Parse(doc) ==
  /\ parserRun.pc = "none"
  /\ parserRun' = [parserRun EXCEPT !.pc = "parsed", !.doc = doc,
                                    !.first = parse(doc)]
  /\ parserFrame

\* the config is written back to text
Generate ==
  /\ parserRun.pc = "parsed"
  /\ parserRun.first.ok
  /\ parserRun' = [parserRun EXCEPT !.pc = "generated",
                                    !.text = generate(parserRun.first.config)]
  /\ parserFrame

\* the generated text is parsed again
ParseGenerated ==
  /\ parserRun.pc = "generated"
  /\ parserRun' = [parserRun EXCEPT !.pc = "reparsed",
                                    !.second = parse(parserRun.text)]
  /\ parserFrame

ParserNext ==
  \/ \E doc \in Documents : Parse(doc)
  \/ Generate
  \/ ParseGenerated

(* ------------------- DeepSeekClient.streamCompletion ------------------- *)
\* The response body is a sequence of symbols: the "data: " prefix, the two
\* halves of a JSON payload, the [DONE] mark, text that is not JSON, and the
\* blank line that ends a frame.  A read delivers any number of them.
DataPrefix == [sym |-> "data: "]

FrameEnd == [sym |-> "\n\n"]

DoneMark == [sym |-> "[DONE]"]

NotJson == [sym |-> "{oops"]

JsonOpen(payload) == [sym |-> "{", of |-> payload]

JsonClose(payload) == [sym |-> "}", of |-> payload]

ContentPayload(text) == [content |-> text]

ErrorPayload(message) == [error |-> message]

\* the payloads of the frames a response carries before its [DONE] frame
Payloads == { ContentPayload(<<"h", "i">>), ContentPayload(<<"!">>),
              ErrorPayload(<<"upstream failed">>) }

\* the text of one frame: `data: ${JSON.stringify(payload)}\n\n`
FrameOf(payload) ==
  <<DataPrefix, JsonOpen(payload), JsonClose(payload), FrameEnd>>

MalformedFrame == <<DataPrefix, NotJson, FrameEnd>>

DoneFrame == <<DataPrefix, DoneMark, FrameEnd>>

FrameTexts == {FrameOf(p) : p \in Payloads} \cup {MalformedFrame}

RECURSIVE Flatten(_)
Flatten(ss) == IF ss = <<>> THEN <<>> ELSE Head(ss) \o Flatten(Tail(ss))

\* the responses: up to MaxFrames frames and the closing [DONE] frame
Responses ==
  UNION { { Append(fs, DoneFrame) : fs \in [1..n -> FrameTexts] } :
          n \in 0..MaxFrames }

\* chunk.split('\n\n')
RECURSIVE splitFrames(_, _, _)
splitFrames(chunk, line, lines) ==
  IF chunk = <<>> THEN Append(lines, line)
  ELSE IF Head(chunk) = FrameEnd
    THEN splitFrames(Tail(chunk), <<>>, Append(lines, line))
  ELSE splitFrames(Tail(chunk), Append(line, Head(chunk)), lines)

\* JSON.parse(data): the payload of a whole JSON text, a SyntaxError otherwise
jsonParse(data) ==
  IF Len(data) = 2 /\ data[1].sym = "{" /\ data[2].sym = "}"
     /\ data[1] = JsonOpen(data[2].of)
    THEN [ok |-> TRUE, value |-> data[2].of]
    ELSE [ok |-> FALSE, value |-> ErrorPayload(<<"SyntaxError">>)]

Has(payload, key) == key \in DOMAIN payload /\ payload[key] # <<>>

\* the catch block of the frame's try: whatever was thrown in it, the
\* SyntaxError of JSON.parse or the Error made from parsed.error, is logged
\* and the loop goes on with the next line
frameCatch(st, thrown) == [st EXCEPT !.caught = Append(@, thrown)]

\* the try block for one data line
onData(data, st) ==
  LET r == jsonParse(data)
      withContent ==
        IF Has(r.value, "content")
          THEN [st EXCEPT !.fullText = @ \o r.value["content"],
                          !.tokens = Append(@, r.value["content"])]
          ELSE st
  IN IF ~r.ok THEN frameCatch(st, <<"SyntaxError">>)
     ELSE IF Has(r.value, "error")
       THEN frameCatch(withContent, r.value["error"])
     ELSE withContent

\* for (const line of lines): [DONE] leaves the loop over this chunk's lines
RECURSIVE forLines(_, _)
forLines(lines, st) ==
  IF lines = <<>> THEN st
  ELSE LET line == Head(lines)
       IN IF line # <<>> /\ Head(line) = DataPrefix
            THEN IF Tail(line) = <<DoneMark>> THEN st
                 ELSE forLines(Tail(lines), onData(Tail(line), st))
            ELSE forLines(Tail(lines), st)

NoStreamRun ==
  [pc |-> "none", response |-> <<>>, wire |-> <<>>, fullText |-> <<>>,
   tokens |-> <<>>, caught |-> <<>>, completions |-> <<>>]

streamFrame ==
  UNCHANGED <<agentVars, facadeVars, bootCall, parserRun, paceRun, page,
              subject>>

\* streamCompletion(messages, onToken, onComplete) up to the first read;
\* a response that is not ok makes it throw
StreamCompletion(response, ok) ==
  /\ streamRun.pc = "none"
  /\ streamRun' = IF ok
       THEN [streamRun EXCEPT !.pc = "reading", !.response = response,
                              !.wire = Flatten(response)]
       ELSE [streamRun EXCEPT !.pc = "rejected"]
  /\ streamFrame

\* reader.read() resolves with the next n symbols of the body
StreamRead(n) ==
  /\ streamRun.pc = "reading"
  /\ n \in 1..Len(streamRun.wire)
  /\ LET chunk == SubSeq(streamRun.wire, 1, n)
         st == forLines(splitFrames(chunk, <<>>, <<>>), streamRun)
     IN streamRun' = [st EXCEPT !.wire = SubSeq(@, n + 1, Len(@))]
  /\ streamFrame

\* reader.read() resolves with done: onComplete(fullText)
StreamDone ==
  /\ streamRun.pc = "reading"
  /\ streamRun.wire = <<>>
  /\ streamRun' = [streamRun EXCEPT
                     !.pc = "resolved",
                     !.completions = Append(@, streamRun.fullText)]
  /\ streamFrame

StreamNext ==
  \/ \E response \in Responses, ok \in BOOLEAN : StreamCompletion(response, ok)
  \/ \E n \in 1..(4 * (MaxFrames + 1)) : StreamRead(n)
  \/ StreamDone

(* ------------- one command of processCommandQueue, in time ------------- *)
\* the delay between two characters of a drain loop, in ms
PacingDelay == 50

\* the delay processCommandQueue waits after sendText, in ms
SettleDelay == 1000

\* the commands: the first n letters, for n up to MaxCommandLen
CommandOfLen(n) == SubSeq(LowerCase, 1, n)

NoTimer == 0 - 1

NoPaceRun ==
  [pc |-> "none", command |-> <<>>, buffer |-> <<>>, typed |-> <<>>,
   processing |-> FALSE, now |-> 0, paceDue |-> NoTimer, settleDue |-> NoTimer,
   atShot |-> <<>>, atNext |-> <<>>]

paceFrame ==
  UNCHANGED <<agentVars, facadeVars, bootCall, parserRun, streamRun, page,
              subject>>

\* one iteration of the loop up to its settle delay, on a facade with a
\* running session and an idle keyboard: the command entry, then
\* sendText(command + "\n"), which queues the characters, starts
\* processKeyboardBuffer (first character, then its 50 ms timer) and returns;
\* then the 1000 ms timer is set
PacedExecute(command) ==
  /\ paceRun.pc = "none"
  /\ LET buf == enqueue(<<>>, commandText(command))
     IN paceRun' = [paceRun EXCEPT
                      !.pc = "settle",
                      !.command = command,
                      !.typed = <<Head(buf)>>,
                      !.buffer = Tail(buf),
                      !.processing = flagWhilePacing,
                      !.paceDue = paceRun.now + PacingDelay,
                      !.settleDue = paceRun.now + SettleDelay]
  /\ paceFrame

\* the 50 ms timer of the drain loop is the next timer due: the next
\* character is sent and the timer set again, or the loop ends
PaceTimer ==
  /\ paceRun.paceDue # NoTimer
  /\ paceRun.settleDue = NoTimer \/ paceRun.paceDue <= paceRun.settleDue
  /\ paceRun' =
       IF paceRun.buffer # <<>>
         THEN [paceRun EXCEPT !.now = paceRun.paceDue,
                              !.typed = Append(@, Head(paceRun.buffer)),
                              !.buffer = Tail(@),
                              !.paceDue = paceRun.paceDue + PacingDelay]
         ELSE [paceRun EXCEPT !.now = paceRun.paceDue,
                              !.processing = FALSE,
                              !.paceDue = NoTimer]
  /\ paceFrame

\* the 1000 ms timer is the next timer due: takeScreenshot captures the
\* screen as the characters typed so far have left it
SettleTimer ==
  /\ paceRun.pc = "settle"
  /\ paceRun.paceDue = NoTimer \/ paceRun.settleDue <= paceRun.paceDue
  /\ paceRun' = [paceRun EXCEPT !.pc = "shot",
                                !.now = paceRun.settleDue,
                                !.settleDue = NoTimer,
                                !.atShot = paceRun.typed]
  /\ paceFrame

\* the screenshot resolves and the loop takes the next command, or ends
PacedNext ==
  /\ paceRun.pc = "shot"
  /\ paceRun' = [paceRun EXCEPT !.pc = "next", !.atNext = paceRun.typed]
  /\ paceFrame

PacingNext ==
  \/ \E n \in 1..MaxCommandLen : PacedExecute(CommandOfLen(n))
  \/ PaceTimer
  \/ SettleTimer
  \/ PacedNext

(* ------------------ EnvironmentPage: the init effect ------------------- *)
\* The page's state `initialized`, the refs, and the effect with the
\* dependencies [environment, initialized].  Run r of initEmulator creates
\* facade r and, when init resolves, agent r.
PageRuns == 1..MaxPageInits

NoPage ==
  [mounted |-> "no", environment |-> 0, initialized |-> FALSE,
   queued |-> "none", nextEnvironment |-> 0, cleanup |-> FALSE,
   emulatorRef |-> 0, aiAgentRef |-> 0, runs |-> 0,
   pc |-> [r \in PageRuns |-> "none"], destroyedRuns |-> {},
   stoppedRuns |-> {}, environmentOf |-> [r \in PageRuns |-> 0]]

pageFrame ==
  UNCHANGED <<agentVars, facadeVars, bootCall, parserRun, streamRun, paceRun,
              subject>>

\* the effect's cleanup function: it works on the refs as they are now
effectCleanup(p) ==
  [p EXCEPT !.stoppedRuns = IF p.aiAgentRef # 0 THEN @ \cup {p.aiAgentRef} ELSE @,
            !.aiAgentRef = 0,
            !.destroyedRuns = IF p.emulatorRef # 0 THEN @ \cup {p.emulatorRef}
                              ELSE @,
            !.emulatorRef = 0,
            !.queued = IF p.mounted = "yes" THEN "false" ELSE @]

\* the effect's first line: nothing to do without an environment or when
\* `initialized` is set
effectReturns(p) == p.environment = 0 \/ p.initialized

\* the effect body: initEmulator() runs up to its first await (facade
\* created, ref set, subscribed, 500 ms timer) and the cleanup is returned
effectBody(p) ==
  IF effectReturns(p) THEN [p EXCEPT !.cleanup = FALSE]
  ELSE LET r == p.runs + 1
       IN [p EXCEPT !.runs = r, !.pc[r] = "init", !.emulatorRef = r,
                    !.environmentOf[r] = p.environment, !.cleanup = TRUE]

\* React commits a render whose dependencies differ from the last ones: the
\* previous cleanup, if one was returned, then the effect body
commitEffect(p) ==
  effectBody(IF p.cleanup THEN effectCleanup(p) ELSE p)

\* whether committing p starts another initEmulator
StartsRun(p) ==
  ~effectReturns(IF p.cleanup THEN effectCleanup(p) ELSE p)

\* the first commit with the environment loaded and the container mounted
PageMount ==
  /\ page.mounted = "no"
  /\ page' = commitEffect([page EXCEPT !.mounted = "yes", !.environment = 1])
  /\ pageFrame

\* a queued setInitialized or setEnvironment is rendered and committed; a
\* setInitialized with the current value causes no render
PageRender ==
  /\ page.mounted = "yes"
  /\ LET init == IF page.queued = "none" THEN page.initialized
                 ELSE page.queued = "true"
         env == IF page.nextEnvironment = 0 THEN page.environment
                ELSE page.nextEnvironment
         rendered == [page EXCEPT !.initialized = init, !.environment = env,
                                  !.queued = "none", !.nextEnvironment = 0]
     IN /\ page.queued # "none" \/ page.nextEnvironment # 0
        /\ IF init = page.initialized /\ env = page.environment
             THEN page' = rendered
             ELSE /\ StartsRun(rendered) => page.runs < MaxPageInits
                  /\ page' = commitEffect(rendered)
  /\ pageFrame

\* emulator.init(container) of run r resolves: the agent is created and
\* connected, aiAgentRef is set, setInitialized(true), agent.start()
InitEmulatorDone(r) ==
  /\ page.pc[r] = "init"
  /\ page' = [page EXCEPT !.pc[r] = "done", !.aiAgentRef = r,
                          !.queued = IF page.mounted = "yes" THEN "true" ELSE @]
  /\ pageFrame

\* a step of run r throws: setError and the toast
InitEmulatorFails(r) ==
  /\ page.pc[r] = "init"
  /\ page' = [page EXCEPT !.pc[r] = "failed"]
  /\ pageFrame

\* the fetch effect loads another environment: setEnvironment
EnvironmentChanges ==
  /\ page.mounted = "yes"
  /\ page.nextEnvironment = 0
  /\ page.environment < MaxEnvironments
  /\ page' = [page EXCEPT !.nextEnvironment = page.environment + 1]
  /\ pageFrame

\* the view unmounts: the cleanup of the last effect runs
PageUnmount ==
  /\ page.mounted = "yes"
  /\ LET gone == [page EXCEPT !.mounted = "gone"]
     IN page' = IF page.cleanup THEN [effectCleanup(gone) EXCEPT !.cleanup = FALSE]
                ELSE gone
  /\ pageFrame

PageNext ==
  \/ PageMount
  \/ PageRender
  \/ \E r \in PageRuns : InitEmulatorDone(r)
  \/ \E r \in PageRuns : InitEmulatorFails(r)
  \/ EnvironmentChanges
  \/ PageUnmount

(* ------------------- onUpdate / notifyUpdate subscribers --------------- *)
\* One object with an onUpdateCallbacks array (a V86Wrapper or an AIAgent),
\* the registrations made on it and the unsubscribe closures handed out.
\* Registration r is the r-th call of onUpdate; the array holds the callback
\* functions, followed here by the registration that pushed each one.
Callbacks == {"a", "b"}

Registrations == 1..MaxRegistrations

\* what a callback may call while it runs: the closure of one of the first
\* n registrations, or none (written 0)
Closures(n) == 0..n

NoSubject ==
  [kind |-> "none", onUpdateCallbacks |-> <<>>,
   callbackOf |-> [r \in Registrations |-> "none"], registered |-> 0,
   walking |-> FALSE, rest |-> <<>>, unsubscribed |-> {}, late |-> {},
   lost |-> {}]

subjectFrame ==
  UNCHANGED <<agentVars, facadeVars, bootCall, parserRun, streamRun, paceRun,
              page>>

\* onUpdateCallbacks.filter(cb => cb !== callback)
filterOut(s, callback) ==
  SelectSeq(s.onUpdateCallbacks, LAMBDA r : s.callbackOf[r] # callback)

\* the closure returned by registration u is called: the array is replaced
\* by a filtered copy (an array being walked by forEach is left as it is)
unsubscribe(s, u) ==
  IF u = 0 THEN s
  ELSE LET kept == filterOut(s, s.callbackOf[u])
           removed == {s.onUpdateCallbacks[i] :
                         i \in 1..Len(s.onUpdateCallbacks)}
                      \ {kept[i] : i \in 1..Len(kept)}
       IN [s EXCEPT !.onUpdateCallbacks = kept,
                    !.unsubscribed = @ \cup {u},
                    !.lost = @ \cup (removed \ (s.unsubscribed \cup {u}))]

\* the callback of registration r is invoked and, while it runs, calls the
\* closure of registration u (or none)
invoke(s, r, u) ==
  unsubscribe([s EXCEPT !.late = IF r \in s.unsubscribed THEN @ \cup {r}
                                 ELSE @], u)

\* whether onUpdate invokes the new callback before it returns: the facade
\* does, the agent does not
initialUpdate(kind) == kind = "facade"

\* the object is constructed
NewSubject(kind) ==
  /\ subject.kind = "none"
  /\ subject' = [subject EXCEPT !.kind = kind]
  /\ subjectFrame

\* onUpdate(callback), called outside a notification; on the facade the
\* callback runs at once and may call closure u
Subscribe(callback, u) ==
  /\ subject.kind # "none"
  /\ ~subject.walking
  /\ subject.registered < MaxRegistrations
  /\ u \in Closures(subject.registered)
  /\ ~initialUpdate(subject.kind) => u = 0
  /\ LET r == subject.registered + 1
         pushed == [subject EXCEPT !.registered = r,
                                   !.callbackOf[r] = callback,
                                   !.onUpdateCallbacks = Append(@, r)]
     IN subject' = IF initialUpdate(subject.kind) THEN invoke(pushed, r, u)
                   ELSE pushed
  /\ subjectFrame

\* closure u is called outside a notification
Unsubscribe(u) ==
  /\ ~subject.walking
  /\ u \in 1..subject.registered
  /\ subject' = unsubscribe(subject, u)
  /\ subjectFrame

\* notifyUpdate(): forEach starts on the array the field holds now
ForEachStart ==
  /\ subject.kind # "none"
  /\ ~subject.walking
  /\ subject.onUpdateCallbacks # <<>>
  /\ subject' = [subject EXCEPT !.walking = TRUE,
                                !.rest = subject.onUpdateCallbacks]
  /\ subjectFrame

\* forEach calls the next callback of the array it walks
ForEachCall(u) ==
  /\ subject.walking
  /\ subject.rest # <<>>
  /\ u \in Closures(subject.registered)
  /\ subject' = [invoke(subject, Head(subject.rest), u)
                   EXCEPT !.rest = Tail(subject.rest)]
  /\ subjectFrame

\* forEach returns
ForEachEnd ==
  /\ subject.walking
  /\ subject.rest = <<>>
  /\ subject' = [subject EXCEPT !.walking = FALSE]
  /\ subjectFrame

SubjectNext ==
  \/ \E kind \in {"facade", "agent"} : NewSubject(kind)
  \/ \E callback \in Callbacks, u \in Closures(MaxRegistrations) :
       Subscribe(callback, u)
  \/ \E u \in Registrations : Unsubscribe(u)
  \/ ForEachStart
  \/ \E u \in Closures(MaxRegistrations) : ForEachCall(u)
  \/ ForEachEnd

(* ------------------------------ Init ----------------------------------- *)
SystemPrompt == Prose("system prompt")

Init ==
  /\ status = "idle"
  /\ isProcessing = FALSE
  /\ history = <<Entry("system", "system", SystemPrompt, NoCommand)>>
  /\ commandQueue = <<>>
  /\ isExecutingCommand = FALSE
  /\ abortController = 0
  /\ agentEmulator = FALSE
  /\ starts = [s \in 1..MaxStarts |-> NewStart]
  /\ turns = [t \in 1..MaxTurns |-> NewTurn]
  /\ published = getState(FALSE, "idle",
                          <<Entry("system", "system", SystemPrompt, NoCommand)>>)
  /\ requests = 0
  /\ \/ \* the facade as constructed
        /\ emulator = FALSE
        /\ isRunning = FALSE
        /\ vmStatus = "initializing"
        /\ screenContainer = FALSE
        /\ initPc = "none"
        /\ initInfo = NewInit
        /\ scriptLoaded \in BOOLEAN
        /\ nInits = 0
        /\ bootProgress = 0
        /\ lastAction = ""
        /\ eventListeners = {}
        /\ engine = NoEngine
     \/ \* the facade after init() has resolved (the page creates the agent
        \* only then)
        /\ emulator = TRUE
        /\ isRunning = TRUE
        /\ vmStatus = "ready"
        /\ screenContainer = TRUE
        /\ initPc = "done"
        /\ initInfo = [NewInit EXCEPT !.probe = Len(filesToCheck),
                                      !.built = TRUE]
        /\ scriptLoaded = TRUE
        /\ nInits = 1
        /\ bootProgress = 100
        /\ lastAction = "System ready"
        /\ eventListeners = WrapperEvents
        /\ engine = [NewEngine EXCEPT !.ready = TRUE]
  /\ keyCall = NoKeyCall
  /\ observer = NewObserver
  /\ destroyed = FALSE
  /\ opThrew = FALSE
  /\ nProgress = 0
  /\ nKeys = 0
  /\ keyboardBuffer = <<>>
  /\ processingKeyboard = FALSE
  /\ lastScreenshot = "null"
  /\ activeDrains = 0
  /\ injected = <<>>
  /\ issued = <<>>
  /\ accepted = <<>>
  /\ queuedWhileDraining = FALSE
  /\ destroyedWithQueue = FALSE
  /\ nSendText = 0
  /\ bootCall = NoBootCall
  /\ parserRun = NoParserRun
  /\ streamRun = NoStreamRun
  /\ paceRun = NoPaceRun
  /\ subject = NoSubject
  /\ page = NoPage

(* --------------------------- AIAgent: start ---------------------------- *)
\* variant: the guard of the revision without `status`
startRejects_ProcessingOnly == isProcessing

\* start() returns at once unless the agent is idle
startRejects == status # "idle"

\* the status start() leaves after the greeting
statusAfterStart == "running"

\* start(): up to the await of the initial screenshot
Start ==
  /\ IF startRejects
       THEN /\ UNCHANGED <<status, isProcessing, starts, published,
                           lastScreenshot, observer>>
       ELSE /\ FreeStarts # {}
            /\ LET s == CHOOSE x \in FreeStarts : \A y \in FreeStarts : x <= y
               IN starts' = [starts EXCEPT ![s] =
                    [pc |-> "shot", shots |-> IF agentEmulator THEN 1 ELSE 0]]
            /\ status' = "starting"
            /\ isProcessing' = TRUE
            /\ published' = getState(TRUE, "starting", history)
            /\ IF agentEmulator THEN takeScreenshot
                                ELSE UNCHANGED <<lastScreenshot, observer>>
  /\ UNCHANGED <<history, commandQueue, isExecutingCommand, abortController,
                 agentEmulator, turns, requests>>
  /\ UNCHANGED facadeRest
  /\ UNCHANGED keyboardVars

\* start(): from the screenshot to the end of the finally block
StartAfterShot(s) ==
  /\ starts[s].pc = "shot"
  /\ starts' = [starts EXCEPT ![s].pc = "done"]
  /\ history' = addToHistory(history,
                       Entry("assistant", "response", Greeting, NoCommand))
  /\ status' = statusAfterStart
  /\ isProcessing' = FALSE
  /\ published' = getState(FALSE, status', history')
  /\ UNCHANGED <<commandQueue, isExecutingCommand, abortController,
                 agentEmulator, turns, requests>>
  /\ UNCHANGED <<facadeVars, libVars>>

\* setEmulator(facade): the agent subscribes, and the facade's onUpdate calls
\* the subscriber once at once
SetEmulator ==
  /\ ~agentEmulator
  /\ agentEmulator' = TRUE
  /\ published' = getState(isProcessing, status, history)
  /\ UNCHANGED <<status, isProcessing, history, commandQueue,
                 isExecutingCommand, abortController, starts, turns, requests>>
  /\ UNCHANGED <<facadeVars, libVars>>

(* ---------------------- AIAgent: one turn ------------------------------ *)
\* variant: the guard without the isProcessing test
sendUserMessageRejects_StatusOnly == status # "running"

\* variant: the guard of the revision without `status`
sendUserMessageRejects_ProcessingOnly == isProcessing

\* sendUserMessage returns at once while a turn runs or the agent is not running
sendUserMessageRejects == isProcessing \/ status # "running"

\* sendUserMessage(message) and processNextStep up to the await of the
\* screenshot
SendUserMessage(message) ==
  /\ IF sendUserMessageRejects
       THEN UNCHANGED <<history, isProcessing, turns, published,
                        lastScreenshot, observer>>
       ELSE /\ FreeTurns # {}
            /\ LET t == CHOOSE x \in FreeTurns : \A y \in FreeTurns : x <= y
               IN turns' = [turns EXCEPT ![t].pc = "shot"]
            /\ history' = addToHistory(history,
                                 Entry("user", "none", message, NoCommand))
            /\ isProcessing' = TRUE
            /\ published' = getState(TRUE, status, history')
            /\ IF agentEmulator THEN takeScreenshot
                                ELSE UNCHANGED <<lastScreenshot, observer>>
  /\ UNCHANGED <<status, commandQueue, isExecutingCommand, abortController,
                 agentEmulator, starts, requests>>
  /\ UNCHANGED facadeRest
  /\ UNCHANGED keyboardVars

\* variant: the completion is answered without a request
issueRequest_None(n) == n

\* this.aiModel.generateCompletion(context): one request to the endpoint
issueRequest(n) == n + 1

\* DeepSeekClient.generateCompletion: the messages of the request body, the
\* client's own system prompt put before the list it was given
allMessages(systemPrompt, messages) ==
  IF systemPrompt # <<>>
    THEN <<[role |-> "system", content |-> systemPrompt]>> \o messages
    ELSE messages

\* variant: only the newest entry is handed over
contextOf_Newest(h) ==
  <<[role |-> h[Len(h)].role, content |-> h[Len(h)].content]>>

\* this.history.map(msg => ({ role: msg.role, content: msg.content }))
contextOf(h) ==
  [i \in DOMAIN h |-> [role |-> h[i].role, content |-> h[i].content]]

\* the note getAIResponse pushes after analyzeScreenshot
ScreenNote ==
  [role |-> "system",
   content |-> Prose("[Current screen state: The screen shows the virtual machine's display with a command interface.]")]

\* getAIResponse up to its first await: the context is copied, a new
\* AbortController is stored, and either the screenshot analysis is awaited or
\* the completion request goes out
TurnAfterShot(t) ==
  /\ turns[t].pc = "shot"
  /\ abortController' = t
  /\ IF agentEmulator /\ lastScreenshot # "null"
       THEN /\ turns' = [turns EXCEPT ![t].pc = "analyze", ![t].signal = "live",
                                      ![t].context = contextOf(history)]
            /\ UNCHANGED requests
       ELSE /\ turns' = [turns EXCEPT ![t].pc = "model", ![t].signal = "live",
                                      ![t].context = contextOf(history),
                                      ![t].body = allMessages(SystemPrompt,
                                                    contextOf(history))]
            /\ requests' = issueRequest(requests)
  /\ UNCHANGED <<status, isProcessing, history, commandQueue,
                 isExecutingCommand, agentEmulator, starts, published>>
  /\ UNCHANGED <<facadeVars, libVars>>

\* analyzeScreenshot resolves and generateCompletion sends the request
TurnAfterAnalyze(t) ==
  /\ turns[t].pc = "analyze"
  /\ turns' = [turns EXCEPT ![t].pc = "model",
                            ![t].context = Append(@, ScreenNote),
                            ![t].body = allMessages(SystemPrompt,
                                          Append(turns[t].context, ScreenNote))]
  /\ requests' = issueRequest(requests)
  /\ UNCHANGED <<status, isProcessing, history, commandQueue,
                 isExecutingCommand, abortController, agentEmulator, starts,
                 published>>
  /\ UNCHANGED <<facadeVars, libVars>>

\* what getAIResponse returns for an outcome of the request
responseOf(outcome, reply) ==
  CASE outcome = "ok" -> reply
    [] outcome = "failed" -> ErrorReplyText
    [] outcome = "aborted" -> CancelledText

\* the outcomes the pending request of turn t can have
outcomesOf(t) ==
  IF fetchHonoursSignal /\ turns[t].signal = "aborted"
    THEN {"aborted"} ELSE {"ok", "failed"}

\* variant: the finally block leaves the flag as it is
flagAfterTurn_Kept == isProcessing

\* the flag processNextStep's finally block writes
flagAfterTurn == FALSE

\* variant: the newest command is taken first
shiftCommand_Last(q) == q[Len(q)]

\* the command this.commandQueue.shift() returns
shiftCommand(q) == Head(q)

\* one iteration of processCommandQueue's loop up to the settle delay: the
\* head of q is shifted, recorded in the history h and typed
ExecuteHead(t, q, h, tr) ==
  /\ commandQueue' = Tail(q)
  /\ history' = addToHistory(h, commandEntry(shiftCommand(q)))
  /\ sendText(commandText(shiftCommand(q)))
  /\ turns' = [tr EXCEPT ![t].pc = "settle", ![t].sent = @ + 1]
  /\ published' = getState(isProcessing, status, history')

\* the completion request settles: the reply is recorded, its commands are
\* queued and processCommandQueue runs up to its first await; with no command
\* the finally block runs in the same slice
ModelReply(t, outcome, reply) ==
  /\ turns[t].pc = "model"
  /\ outcome \in outcomesOf(t)
  /\ LET response == responseOf(outcome, reply)
         h1 == addToHistory(history,
                      Entry("assistant", "response", response, NoCommand))
         commands == extractCommands(response)
         q1 == commandQueue \o commands
         tr == [turns EXCEPT ![t].outcome = outcome, ![t].reply = response,
                             ![t].context = <<>>, ![t].body = <<>>]
     IN IF commands = <<>>
          THEN /\ history' = h1
               /\ isProcessing' = flagAfterTurn
               /\ published' = getState(isProcessing', status, h1)
               /\ turns' = [tr EXCEPT ![t].pc = "done"]
               /\ UNCHANGED <<commandQueue, isExecutingCommand>>
               /\ UNCHANGED keyboardVars
          ELSE IF isExecutingCommand \/ ~agentEmulator
                 THEN /\ history' = h1
                      /\ commandQueue' = q1
                      /\ published' = getState(isProcessing, status, h1)
                      /\ turns' = [tr EXCEPT ![t].pc = "queueRet"]
                      /\ UNCHANGED <<isProcessing, isExecutingCommand>>
                      /\ UNCHANGED keyboardVars
                 ELSE /\ isExecutingCommand' = TRUE
                      /\ ExecuteHead(t, q1, h1, tr)
                      /\ UNCHANGED isProcessing
  /\ UNCHANGED <<status, abortController, agentEmulator, starts, requests, lastScreenshot, observer>>
  /\ UNCHANGED facadeRest

\* the 1 s settle delay ends and the post-command screenshot is requested
TurnSettled(t) ==
  /\ turns[t].pc = "settle"
  /\ takeScreenshot
  /\ turns' = [turns EXCEPT ![t].pc = "cmdShot", ![t].shots = @ + 1,
                            ![t].shot = takeScreenshotResult]
  /\ published' = IF takeScreenshotResult
                    THEN getState(isProcessing, status, history)
                    ELSE published
  /\ UNCHANGED <<status, isProcessing, history, commandQueue,
                 isExecutingCommand, abortController, agentEmulator, starts,
                 requests>>
  /\ UNCHANGED facadeRest
  /\ UNCHANGED keyboardVars

\* the screenshot resolves: the next command starts, or the loop ends and
\* processCommandQueue's finally block runs
TurnAfterCmdShot(t) ==
  /\ turns[t].pc = "cmdShot"
  /\ IF Len(commandQueue) > 0
       THEN /\ ExecuteHead(t, commandQueue, history, turns)
            /\ UNCHANGED isExecutingCommand
       ELSE /\ isExecutingCommand' = FALSE
            /\ turns' = [turns EXCEPT ![t].pc = "queueRet"]
            /\ published' = IF turns[t].shot
                              THEN getState(isProcessing, status, history)
                              ELSE published
            /\ UNCHANGED <<commandQueue, history>>
            /\ UNCHANGED keyboardVars
  /\ UNCHANGED <<status, isProcessing, abortController, agentEmulator, starts,
                 requests, lastScreenshot, observer>>
  /\ UNCHANGED facadeRest

\* processNextStep's finally block
TurnFinally(t) ==
  /\ turns[t].pc = "queueRet"
  /\ turns' = [turns EXCEPT ![t].pc = "done"]
  /\ isProcessing' = flagAfterTurn
  /\ published' = getState(isProcessing', status, history)
  /\ UNCHANGED <<status, history, commandQueue, isExecutingCommand,
                 abortController, agentEmulator, starts, requests>>
  /\ UNCHANGED <<facadeVars, libVars>>

(* --------------------------- AIAgent: stop ----------------------------- *)
\* variant: stop() forgets to clear the queue
queueAfterStop_Kept == commandQueue

\* the command queue stop() leaves
queueAfterStop == <<>>

\* stop()
Stop ==
  /\ nStops < MaxStops
  /\ abortController' = 0
  /\ status' = "stopped"
  /\ isProcessing' = FALSE
  /\ commandQueue' = queueAfterStop
  /\ isExecutingCommand' = FALSE
  /\ history' = addToHistory(history,
                       Entry("system", "system", StoppedNote, NoCommand))
  /\ published' = getState(FALSE, "stopped", history')
  /\ turns' = [t \in 1..MaxTurns |->
       LET r == turns[t]
           a == IF abortController = t THEN [r EXCEPT !.signal = "aborted"]
                ELSE r
       IN IF InFlight(t) /\ r.stoppedAt = "none"
            THEN [a EXCEPT !.stoppedAt = r.pc, !.sentAtStop = r.sent]
            ELSE a]
  /\ UNCHANGED <<agentEmulator, starts, requests>>
  /\ UNCHANGED <<facadeVars, libVars>>

AgentNext ==
  \/ Start
  \/ \E s \in 1..MaxStarts : StartAfterShot(s)
  \/ SetEmulator
  \/ \E message \in UserMessages : SendUserMessage(message)
  \/ \E t \in 1..MaxTurns : TurnAfterShot(t)
  \/ \E t \in 1..MaxTurns : TurnAfterAnalyze(t)
  \/ \E t \in 1..MaxTurns, outcome \in {"ok", "failed", "aborted"},
        reply \in Replies : ModelReply(t, outcome, reply)
  \/ \E t \in 1..MaxTurns : TurnSettled(t)
  \/ \E t \in 1..MaxTurns : TurnAfterCmdShot(t)
  \/ \E t \in 1..MaxTurns : TurnFinally(t)
  \/ Stop

\* the agent with the facade it drives: the facade's keyboard drain and the
\* lifecycle calls the page makes on it while the agent lives
Next == AgentNext \/ DrainStep \/ VmStop \/ VmDestroy

Spec == Init /\ [][Next]_vars

\* the facade on its own, driven by its callers and by the engine's events
FacadeSpec == Init /\ [][FacadeNext]_vars

\* the facade with its drain loops scheduled: a pending 50 ms timer fires
FairFacadeSpec == FacadeSpec /\ WF_vars(DrainStep)

\* the facade's lifecycle under every order of calls, timers and engine events
LifecycleSpec == Init /\ [][LifecycleNext]_vars

\* the control operations on their own
ControlSpec == Init /\ [][ControlNext]_vars

(* ======================================================================= *)
(* Properties                                                              *)
(* ======================================================================= *)
TurnsInFlight == {t \in 1..MaxTurns : InFlight(t)}

ExecPcs == {"settle", "cmdShot"}

TurnBegins(t) == turns[t].pc = "none" /\ turns'[t].pc # "none"

TurnEnds(t) == turns[t].pc # "done" /\ turns'[t].pc = "done"

UserEntryAppended ==
  /\ Len(history') = Len(history) + 1
  /\ history'[Len(history')].role = "user"

HasEntryOfType(ty) == \E i \in DOMAIN history : history[i].type = ty

AssistantEntries(h) == {i \in DOMAIN h : h[i].role = "assistant"}

\* C1: at most one turn (processNextStep) is in flight at any time; a second
\* turn begins only after the previous one has run its finally block.
C1_OneTurnInFlight == Cardinality(TurnsInFlight) <= 1

\* a second turn is in flight after the first has ended, a stop() included
C1_Witness == turns[1].pc = "done" /\ InFlight(2)

\* C2: a turn that stop() interrupts while it awaits the completion resolves
\* with 'Request was cancelled.' and neither records nor types a command.
C2_StopCancelsRequest ==
  \A t \in 1..MaxTurns :
    (turns[t].stoppedAt = "model" /\ turns[t].outcome # "none")
      => (turns[t].reply = CancelledText /\ turns[t].sent = 0)

\* C3: when stop() comes while command k of a turn is being executed, the
\* step of command k runs to its end (settle delay and screenshot) and no
\* later command of that turn is recorded in the history or typed.
C3_StopDiscardsRemainder ==
  \A t \in 1..MaxTurns :
    turns[t].stoppedAt \in ExecPcs
      => /\ turns[t].sent = turns[t].sentAtStop
         /\ Len(commandQueue) = 0
         /\ turns[t].pc \in {"queueRet", "done"}
              => turns[t].shots = turns[t].sent

\* the reply held two commands, stop() came during the first, the turn ended
C3_Witness ==
  \E t \in 1..MaxTurns :
    /\ turns[t].stoppedAt \in ExecPcs
    /\ Len(extractCommands(turns[t].reply)) = 2
    /\ turns[t].sentAtStop = 1
    /\ turns[t].pc = "done"

\* C4: once stop() has set the status to 'stopped' the status never changes
\* again and no sendUserMessage is accepted.
C4_StoppedIsTerminal ==
  [][status = "stopped"
       => (status' = "stopped" /\ \A t \in 1..MaxTurns : ~TurnBegins(t))]_vars

\* C5 (as stated): every character of every sendText call is injected
\* exactly once, in call order: what was issued is what was injected followed
\* by what is still queued.
C5_AllIssuedInjected == issued = injected \o keyboardBuffer

\* C5 (amended): every character of every sendText call made while the facade
\* has an engine and isRunning is true is passed to keyboard_send_text exactly
\* once, in the order of those calls, and the queue is drained in the end,
\* unless destroy() comes while characters are queued; a call made with no
\* engine or with isRunning false injects nothing.
C5_AcceptedInjectedInOrder ==
  /\ [](~destroyedWithQueue => accepted = injected \o keyboardBuffer)
  /\ (Len(keyboardBuffer) > 0)
       ~> (Len(keyboardBuffer) = 0 \/ destroyedWithQueue)

\* two calls, the later one made during the drain of the earlier, all typed
C5_Witness ==
  /\ queuedWhileDraining
  /\ ~destroyedWithQueue
  /\ Len(accepted) >= 3
  /\ injected = accepted

\* C6: at most one processKeyboardBuffer loop is active; a sendText call made
\* during the pacing delay of a drain only appends to the buffer.
C6_OneDrainLoop == activeDrains <= 1

\* a sendText call was accepted while a loop was suspended, the loop goes on
C6_Witness ==
  queuedWhileDraining /\ activeDrains = 1 /\ Len(keyboardBuffer) > 0

\* C7 (as stated): every start() that passes its guard takes one screenshot.
C7_StartTakesOneScreenshot ==
  \A s \in 1..MaxStarts : starts[s].pc # "none" => starts[s].shots = 1

\* C7 (amended): start() changes nothing unless status is 'idle'; from 'idle'
\* it sets status 'starting' with isProcessing true, calls takeScreenshot once
\* if an emulator is attached (not at all otherwise), appends the greeting as
\* the first assistant entry and ends with status 'running' and isProcessing
\* false.
C7_StartContract ==
  [][/\ (status # "starting" /\ status' = "starting") => status = "idle"
     /\ \A s \in 1..MaxStarts :
          /\ (starts[s].pc = "none" /\ starts'[s].pc # "none")
               => /\ status = "idle"
                  /\ status' = "starting"
                  /\ isProcessing'
                  /\ starts'[s].pc = "shot"
                  /\ starts'[s].shots = (IF agentEmulator THEN 1 ELSE 0)
                  /\ history' = history
          /\ (starts[s].pc = "shot" /\ starts'[s].pc # "shot")
               => /\ starts'[s].pc = "done"
                  /\ status' = "running"
                  /\ ~isProcessing'
                  /\ history' = Append(history,
                        Entry("assistant", "response", Greeting, NoCommand))
                  /\ AssistantEntries(history) = {}]_vars

\* start() has run to its end with an emulator attached
C7_Witness ==
  /\ starts[1] = [pc |-> "done", shots |-> 1]
  /\ status = "running"
  /\ ~isProcessing
  /\ history[Len(history)].content = Greeting

\* C8: a sendUserMessage call made while the status is not 'running' or
\* while isProcessing is true adds no user entry, begins no turn, issues no
\* request and leaves the command queue and the status as they are.
C8_RejectedSendChangesNothing ==
  [][(UserEntryAppended \/ \E t \in 1..MaxTurns : TurnBegins(t))
       => /\ ~isProcessing
          /\ status = "running"
          /\ status' = status
          /\ commandQueue' = commandQueue
          /\ requests' = requests]_vars

\* a call can be made while a turn is running: it is the rejected one
C8_Witness ==
  /\ isProcessing
  /\ status = "running"
  /\ InFlight(1)
  /\ FreeTurns # {}

\* C9: every turn, whether its request succeeds or fails, ends with
\* isProcessing false and a publication of that final state; a turn has no
\* other way out than its finally block.
C9_TurnEndsClean ==
  [][\A t \in 1..MaxTurns :
       /\ TurnEnds(t)
            => /\ ~isProcessing'
               /\ published' = getState(FALSE, status', history')
       /\ InFlight(t) => (InFlight(t)' \/ turns'[t].pc = "done")]_vars

\* a turn whose request failed has ended
C9_Witness ==
  \E t \in 1..MaxTurns :
    /\ turns[t].pc = "done"
    /\ turns[t].outcome = "failed"
    /\ ~isProcessing
    /\ published = getState(FALSE, status, history)

\* C10: a turn whose completion request fails appends an entry of type
\* 'error' and leaves the agent running with isProcessing false.
C10_FailureRecordedAsError ==
  \A t \in 1..MaxTurns :
    (turns[t].outcome = "failed" /\ turns[t].pc = "done")
      => HasEntryOfType("error")


(* ------------------------------- C11 ----------------------------------- *)
IsPrefix(h1, h2) ==
  /\ Len(h1) <= Len(h2)
  /\ SubSeq(h2, 1, Len(h1)) = h1

\* C11: the agent's history is append-only: no step removes, reorders or
\* rewrites an entry, so the history before a step is a prefix of the history
\* after it, and so is the history of successive published snapshots
C11_HistoryAppendOnly ==
  [][/\ IsPrefix(history, history')
     /\ IsPrefix(published.history, published'.history)]_vars

\* a history that has grown through start(), a turn with a command and stop()
C11_Witness ==
  /\ Len(history) >= 5
  /\ HasEntryOfType("command")
  /\ history[Len(history)].content = StoppedNote
  /\ history[1].role = "system"

(* ------------------------------- C12 ----------------------------------- *)
\* C12: V86Wrapper.onUpdate(cb) calls cb before it returns, with a snapshot
\* equal to the facade state at the time of subscription, and that is the
\* first call cb gets; after every later change of the facade state cb has
\* been called again, so the snapshot of its latest call is the current one
C12_SubscriberFollowsState ==
  observer.subscribed =>
    /\ observer.calls >= 1
    /\ observer.firstAtSubscription
    /\ observer.last = vmGetState

\* a subscriber registered before init() that has since been told of 'ready'
C12_Witness ==
  /\ observer.subscribed
  /\ observer.calls > 1
  /\ observer.last.status = "ready"
  /\ observer.last.bootProgress = 100

(* ------------------------------- C13 ----------------------------------- *)
\* the fields of the facade, and the engine it may call
facadeFields ==
  <<emulator, isRunning, keyboardBuffer, processingKeyboard, lastScreenshot,
    vmStatus, screenContainer, bootProgress, lastAction, eventListeners,
    engine>>

\* a call of one of the control operations
ControlOperation ==
  \/ VmStop
  \/ VmResume
  \/ VmRestart
  \/ VmDestroy
  \/ VmTakeScreenshot
  \/ \E text \in Texts : VmSendText(text)
  \/ \E key \in RawKeys : VmSendKey(key)
  \/ \E name \in KeysPressed : VmSendSpecialKey(name)

C14_DestroyRemovesEveryListener ==
  destroyed =>
    /\ engine.listeners = {}
    /\ ~emulator
    /\ lastScreenshot = "null"
    /\ ~isRunning

(* ------------------------------- C15 ----------------------------------- *)
\* C15: an init() that fails because the mount is not attached, because the
\* engine script does not load, or because a boot asset does not answer its
\* probe with success, is rejected without the engine constructor having been
\* invoked; an attempt with an unreachable asset never gets past the probes
C15_NoEngineOnEarlyFailure ==
  /\ initInfo.failure \in {"detached", "script", "asset"} =>
       /\ initPc = "failed"
       /\ ~initInfo.built
       /\ ~emulator
  /\ (initInfo.bad # "none" /\ initPc \in {"ready", "done", "failed"}) =>
       /\ initPc = "failed"
       /\ initInfo.failure \in {"script", "unavailable", "asset"}
       /\ ~initInfo.built

\* an attempt rejected at the probe of the last asset, the WASM binary, after
\* the script had to be loaded
C15_Witness ==
  /\ initPc = "failed"
  /\ initInfo.failure = "asset"
  /\ initInfo.bad = "wasm_path"
  /\ initInfo.probe = Len(filesToCheck)
  /\ vmStatus = "initialization failed"
  /\ ~engine.made

(* ------------------------------- C16 ----------------------------------- *)
\* init() resolves in this step
InitResolves == initPc = "ready" /\ initPc' = "done"

\* C16 as stated: init() resolves only after the engine's readiness event,
\* and at that moment the published snapshot has status 'ready' and
\* isRunning true
C16_ResolvesReadyAndRunning ==
  [][InitResolves =>
       /\ ~engine.ready /\ engine'.ready
       /\ vmStatus' = "ready"
       /\ isRunning'
       /\ observer'.subscribed =>
            (observer'.last.status = "ready" /\ observer'.last.isRunning)]_vars

\* C16, amended: init() resolves only in the step in which the engine emits
\* its readiness event; if neither stop(), destroy() nor an "emulator-stopped"
\* event came during the wait, the published snapshot then has status 'ready'
\* and isRunning true
C16_ResolvesOnReadiness ==
  [][InitResolves =>
       /\ ~engine.ready /\ engine'.ready
       /\ ~initInfo.interrupted =>
            /\ vmStatus' = "ready"
            /\ isRunning'
            /\ observer'.subscribed =>
                 (observer'.last.status = "ready" /\ observer'.last.isRunning)]_vars

\* a second init(), after a destroy(), has resolved with a subscriber watching
C16_Witness ==
  /\ initPc = "done"
  /\ nInits > 1
  /\ engine.ready
  /\ vmStatus = "ready"
  /\ isRunning
  /\ observer.subscribed
  /\ observer.last.status = "ready"

(* ------------------------------- C17 ----------------------------------- *)
\* the 30 s timer of the readiness wait fires in this step
InitTimesOut == initPc = "ready" /\ initInfo'.failure = "timeout"

\* C17: while init() waits and the engine has emitted neither readiness nor
\* an error, the 30 s timer is pending; when it fires init() is rejected and
\* the published status becomes 'initialization failed'
C17_TimeoutRejects ==
  [][/\ initPc = "ready" => ENABLED VmInitTimeout
     /\ InitTimesOut =>
          /\ initPc' = "failed"
          /\ vmStatus' = "initialization failed"
          /\ observer'.subscribed =>
               observer'.last.status = "initialization failed"]_vars

\* init() timed out on an engine that is still held and marked running
C17_Witness ==
  /\ initPc = "failed"
  /\ initInfo.failure = "timeout"
  /\ vmStatus = "initialization failed"
  /\ emulator
  /\ ~engine.ready
  /\ observer.subscribed

(* ------------------------------- C18 ----------------------------------- *)
ErrorStatuses == {"failed to load v86", "initialization failed", "download error"}

\* C18: once the status is 'failed to load v86', 'initialization failed' or
\* 'download error' it stays so for the rest of the attempt: only a step of a
\* new init() changes it, no engine event does
C18_ErrorStatusIsTerminal ==
  [][(vmStatus \in ErrorStatuses /\ vmStatus' # vmStatus) =>
       nInits' = nInits + 1]_vars

WithReleaseBit(code) == IF code >= 128 THEN code ELSE code + 128

RECURSIVE PressRelease(_)
\* for each code in order, the code and then the code with the release bit
PressRelease(codes) ==
  IF codes = <<>> THEN <<>>
  ELSE <<Head(codes), WithReleaseBit(Head(codes))>> \o PressRelease(Tail(codes))

\* what a sendSpecialKey call is to send, given its argument and whether a
\* session was running when it was made
ExpectedScancodes(call) ==
  IF call.accepted /\ call.name \in KeyNames THEN PressRelease(keyMap[call.name])
  ELSE <<>>

\* the latest key call was a sendSpecialKey call
SpecialKeyCalled == keyCall.name \in KeysPressed

\* a sendSpecialKey call that its guard, or the table, turns away
SpecialKeyRejected ==
  \E name \in KeysPressed :
    /\ VmSendSpecialKey(name)
    /\ ~(emulator /\ isRunning) \/ name \notin KeyNames

OptionsSpec == Init /\ [][OptionsNext]_vars

\* the boot order the OS name stands for, whatever its letter case
BootOrderOf(osType) ==
  IF toLowerCase(osType) = WindowsName THEN BootHardDiskFirst
  ELSE IF toLowerCase(osType) = FreedosName THEN BootFloppyFirst
  ELSE BootCdromFirst

\* C21: the boot_order handed to the engine is 0x123 for 'windows', 0x321 for
\* 'freedos' and 0x132 for 'linux' and every other name, in any letter case,
\* unless the caller's options carry a boot_order, which then is the one passed
C21_BootOrderByOS ==
  bootCall.pc = "built" =>
    bootCall.passed["boot_order"] =
      IF "boot_order" \in DOMAIN bootCall.options
        THEN bootCall.options["boot_order"]
        ELSE BootOrderOf(bootCall.osType)

\* an engine built for a mixed-case 'FreeDOS' without an override
C21_Witness ==
  /\ bootCall.pc = "built"
  /\ bootCall.osType = <<"F", "r", "e", "e", "D", "O", "S">>
  /\ "boot_order" \notin DOMAIN bootCall.options
  /\ bootCall.passed["boot_order"] = BootFloppyFirst

(* ----------------------------- C22 ------------------------------------- *)
\* one document through parse, generate and parse, for every document
ParserSpec == Init /\ [][ParserNext]_vars

\* the value a document that loads gives a top-level key
FieldOf(doc, key) == Get(load(doc), key)

Present(doc, key) == Truthy(FieldOf(doc, key))

\* what is wrong with a document, in the order name, os, aiModel, task,
\* os value, aiModel value; "none" for a document of the schema
FirstOffence(doc) ==
  IF ~Present(doc, "name") THEN "name"
  ELSE IF ~Present(doc, "os") THEN "os"
  ELSE IF ~Present(doc, "aiModel") THEN "aiModel"
  ELSE IF ~Present(doc, "task") THEN "task"
  ELSE IF FieldOf(doc, "os").v \notin {"linux", "windows", "freedos"}
         \/ FieldOf(doc, "os").k # "string" THEN "OS type"
  ELSE IF FieldOf(doc, "aiModel").v \notin {"deepseek", "gemini", "claude"}
         \/ FieldOf(doc, "aiModel").k # "string" THEN "AI model"
  ELSE "none"

\* the field or value an error message names
Named(message) ==
  IF Len(message) = 3 /\ message[2] = "Missing required field: "
    THEN message[3]
  ELSE IF Len(message) = 6 /\ message[4] = " (reading '" THEN message[5]
  ELSE IF Len(message) = 2
          /\ message[2] = "Invalid OS type. Must be one of: linux, windows, freedos"
    THEN "OS type"
  ELSE IF Len(message) = 2
          /\ message[2] = "Invalid AI model. Must be one of: deepseek, gemini, claude"
    THEN "AI model"
  ELSE "nothing"

\* C22: parse throws for every document that lacks a required field or has
\* an invalid one, and the error names the first offence in the order name,
\* os, aiModel, task, os value, aiModel value; it returns a config only for
\* a document with all four fields and os and aiModel in their enumerations
C22_FirstOffenceNamed ==
  parserRun.pc # "none" /\ ~loadThrows(parserRun.doc) =>
    IF FirstOffence(parserRun.doc) = "none"
      THEN parserRun.first.ok
      ELSE /\ ~parserRun.first.ok
           /\ Named(parserRun.first.error) = FirstOffence(parserRun.doc)

\* a document without task and with an os outside the enumeration: the
\* error names task
C22_Witness ==
  /\ parserRun.pc = "parsed"
  /\ ~loadThrows(parserRun.doc)
  /\ Present(parserRun.doc, "name")
  /\ FieldOf(parserRun.doc, "os") = Str("Linux")
  /\ ~Present(parserRun.doc, "task")
  /\ Named(parserRun.first.error) = "task"

(* ----------------------------- C23 ------------------------------------- *)
\* a mapping value without the keys whose value is undefined
Defined(value) == [key \in definedKeys(value.v) |-> value.v[key]]

\* the value a generated document gives options.key
OptionOf(text, key) == Get(Get(load(text), "options"), key)

\* the value the source document gives options.key, undefined when it has no
\* options mapping or the mapping has no such key
GivenOption(doc, key) == OptGet(FieldOf(doc, "options"), key)

StreamSpec == Init /\ [][StreamNext]_vars

\* the content deltas of a response, in the order they were sent
RECURSIVE DeltasOf(_)
DeltasOf(response) ==
  IF response = <<>> THEN <<>>
  ELSE LET frame == Head(response)
       IN IF Len(frame) = 4 /\ "content" \in DOMAIN frame[3].of
            THEN <<frame[3].of["content"]>> \o DeltasOf(Tail(response))
            ELSE DeltasOf(Tail(response))

\* C24: when the stream has ended, onToken has been called once for each
\* well-formed content delta of the response, in arrival order, malformed
\* frames were skipped, and onComplete has been called exactly once, after the
\* last onToken, with the concatenation of the tokens
C24_TokenPerDelta ==
  /\ streamRun.pc = "resolved" =>
       /\ streamRun.tokens = DeltasOf(streamRun.response)
       /\ streamRun.completions = <<Flatten(streamRun.tokens)>>
  /\ streamRun.pc = "reading" => streamRun.completions = <<>>

(* ----------------------------- C25 ------------------------------------- *)
\* the error payloads streamCompletion has read as whole frames
ErrorsRead ==
  {i \in 1..Len(streamRun.caught) : streamRun.caught[i] # <<"SyntaxError">>}

\* C25: once a frame with an error payload has been read, streamCompletion
\* processes nothing more, rejects with that error and never calls onComplete
C25_ErrorFrameRejects ==
  ErrorsRead # {} => /\ streamRun.pc # "resolved"
                     /\ streamRun.completions = <<>>

(* ----------------------------- C26 ------------------------------------- *)
\* the turns whose completion request has gone out
Requested == {t \in 1..MaxTurns : turns[t].pc \notin {"none", "shot", "analyze"}}

UserEntries(h) == {i \in DOMAIN h : h[i].role = "user"}

\* C26: every accepted sendUserMessage call causes exactly one completion
\* request and nothing else causes one: a turn begins only in the step that
\* appends a user message, the request count grows only by one and only when
\* a begun turn reaches its request, start() leaves it alone, and the count is
\* the number of turns that have reached their request
C26_OneRequestPerAcceptedMessage ==
  [][ /\ requests' = Cardinality(Requested')
      /\ \A t \in 1..MaxTurns :
           TurnBegins(t) =>
             /\ Cardinality(UserEntries(history')) =
                  Cardinality(UserEntries(history)) + 1
             /\ \A u \in 1..MaxTurns : u # t => turns'[u].pc = turns[u].pc
      /\ Cardinality(UserEntries(history')) =
           Cardinality({t \in 1..MaxTurns : turns'[t].pc # "none"})
      /\ starts' # starts => requests' = requests
      /\ requests' # requests =>
           /\ requests' = requests + 1
           /\ \E t \in 1..MaxTurns :
                /\ turns[t].pc \in {"shot", "analyze"}
                /\ turns'[t].pc = "model" ]_vars

\* two accepted messages after a start(), both turns over, two requests
C26_Witness ==
  /\ requests = 2
  /\ \E s \in 1..MaxStarts : starts[s].pc = "done"
  /\ \A t \in 1..2 : turns[t].pc = "done"

(* ----------------------------- C27 ------------------------------------- *)
\* the turns whose reply has been recorded
Replied == {t \in 1..MaxTurns : turns[t].pc \in {"settle", "cmdShot", "queueRet", "done"}}

IsTurnEntry(e) ==
  \/ e.type = "command"
  \/ e.type = "response" /\ e.content # Greeting

\* the first k commands of a reply, as history entries and as typed text
CommandEntries(cs, k) == [i \in 1..k |-> commandEntry(cs[i])]

TypedText(cs, k) == Flatten([i \in 1..k |-> commandText(cs[i])])

\* what the turns 1..n have written and typed up to now, turn by turn
RECURSIVE Written(_)
Written(n) ==
  IF n = 0 THEN <<>>
  ELSE IF n \notin Replied THEN Written(n - 1)
  ELSE Written(n - 1)
       \o <<Entry("assistant", "response", turns[n].reply, NoCommand)>>
       \o CommandEntries(extractCommands(turns[n].reply), turns[n].sent)

RECURSIVE Typed(_)
Typed(n) ==
  IF n = 0 THEN <<>>
  ELSE IF n \notin Replied THEN Typed(n - 1)
  ELSE Typed(n - 1) \o TypedText(extractCommands(turns[n].reply), turns[n].sent)

FacadeAtReplies ==
  \A t \in Replied :
    extractCommands(turns[t].reply) # <<>> => turns[t].sent > 0

RoleAndContent(h) ==
  [i \in 1..Len(h) |-> [role |-> h[i].role, content |-> h[i].content]]

\* turn t hands its message list to the model client in this step
RequestSent(t) == turns[t].pc # "model" /\ turns'[t].pc = "model"

\* C28: the message list a turn hands to the model client is the full
\* history in insertion order, reduced to role and content, followed by
\* exactly one system note describing the screen
C28_HistoryThenScreenNote ==
  [][\A t \in 1..MaxTurns :
       RequestSent(t) =>
         turns'[t].context = Append(RoleAndContent(history), ScreenNote)]_vars

\* C28, with the note depending on a screenshot: the list is the history as
\* it stood when getAIResponse was entered, reduced to role and content, and
\* the screen note follows exactly when the facade then held a screenshot;
\* only the notes of a stop() during the screen analysis can be missing
C28_HistoryThenNoteOfScreenshot ==
  [][\A t \in 1..MaxTurns :
       /\ turns[t].pc = "shot" /\ turns'[t].pc # "shot" =>
            /\ turns'[t].context = RoleAndContent(history)
            /\ turns'[t].pc = "analyze" <=>
                 agentEmulator /\ lastScreenshot # "null"
       /\ RequestSent(t) =>
            IF turns[t].pc = "analyze"
              THEN /\ turns'[t].context = Append(turns[t].context, ScreenNote)
                   /\ IsPrefix(turns[t].context, RoleAndContent(history))
                   /\ \A i \in (Len(turns[t].context) + 1)..Len(history) :
                        history[i].content = StoppedNote
              ELSE turns'[t].context = RoleAndContent(history)]_vars

\* a request whose list is the system prompt, the greeting, the user's
\* message and the screen note
C28_Witness ==
  \E t \in 1..MaxTurns :
    /\ turns[t].pc = "model"
    /\ Len(turns[t].context) = 4
    /\ turns[t].context[3].role = "user"
    /\ turns[t].context[4] = ScreenNote

(* ----------------------------- C29 ------------------------------------- *)
\* one command from sendText to the next loop iteration, with the timers of
\* the drain loop and of the settle delay firing in the order they are due
PacingSpec == Init /\ [][PacingNext]_vars

\* C29: every character of a command, its newline included, has been sent to
\* the engine before the screenshot after the command is captured and before
\* the next command is begun, whatever the length of the command
C29_TypedBeforeScreenshot ==
  /\ paceRun.pc \in {"shot", "next"} =>
       paceRun.atShot = paceRun.command \o <<"\n">>
  /\ paceRun.pc = "next" => paceRun.atNext = paceRun.command \o <<"\n">>

(* ----------------------------- C30 ------------------------------------- *)
\* the environment page from its first commit to its unmount
PageSpec == Init /\ [][PageNext]_vars

\* the runs of initEmulator that succeeded for the environment shown
LiveRuns ==
  {r \in PageRuns : page.pc[r] = "done"
                    /\ page.environmentOf[r] = page.environment}

\* C30: the facade and the agent a successful initEmulator created are
\* neither destroyed nor stopped while the view stays mounted and shows the
\* same environment; in particular setInitialized(true) does not make the
\* effect clean up and initialize again
C30_AliveUntilUnmountOrChange ==
  page.mounted = "yes" /\ page.nextEnvironment = 0 =>
    /\ \A r \in LiveRuns : r \notin page.destroyedRuns
                           /\ r \notin page.stoppedRuns
    /\ Cardinality({r \in PageRuns : page.environmentOf[r] = page.environment
                                     /\ page.pc[r] \in {"init", "done"}}) <= 1

(* ---------------------- C31: unsubscribe closures ---------------------- *)
SubjectSpec == Init /\ [][SubjectNext]_vars

\* C31: once the unsubscribe closure of a registration has been called, its
\* callback is not invoked again, also when the closure is called by another
\* subscriber while a notification is going on, and calling it removes no
\* other registration from the object.
C31_UnsubscribedNeverInvoked ==
  /\ subject.late = {}
  /\ subject.lost = {}

(* ------------------------ C32: boot progress --------------------------- *)
\* C32: between init and destroy bootProgress stays within 0..100 and no
\* engine event, in whatever order the events come, makes it smaller.
C32_ProgressNeverDecreases ==
  [][/\ bootProgress \in 0..100
     /\ bootProgress' \in 0..100
     /\ bootProgress' >= bootProgress]_vars

(* --------------------- C33: status and isRunning ----------------------- *)
\* C33: in every reachable state of the facade, status 'stopped' comes
\* with isRunning false, whatever stop(), resume(), restart() and
\* 'emulator-stopped' events have happened.
C33_StoppedIsNotRunning == vmStatus = "stopped" => ~isRunning

(* ------------------- C34: the facade after a rejection ----------------- *)
\* the step in which a pending init() rejects
InitRejects == initPc # "failed" /\ initPc' = "failed"

\* C34: whenever init() rejects, on whichever failure path, the facade it
\* leaves behind reports isRunning false and holds no engine (so sendText,
\* sendKey and takeScreenshot return at their guards).
C34_RejectedInitLeavesNoEngine ==
  [][InitRejects => ~isRunning' /\ ~emulator']_vars

(* ------------------ C35: injection needs a running session ------------- *)
\* the step passes a character to the engine's keyboard_send_text
Injects == Len(injected') > Len(injected)

\* C35: no character is passed to keyboard_send_text while isRunning is
\* false: what is still queued in keyboardBuffer after stop(), after an
\* 'emulator-stopped' event or after destroy() is not injected.
C35_NoInjectionWhileNotRunning ==
  [][Injects => isRunning]_vars

(* -------------------- C36: the queue between turns --------------------- *)
\* C36: whenever no turn is in flight commandQueue is empty, so that no
\* command extracted in one turn is left for a later turn, also when the
\* turn ran without an emulator attached.
C36_QueueEmptyBetweenTurns == TurnsInFlight = {} => commandQueue = <<>>

(* ------------------ C37: isProcessing during a turn -------------------- *)
\* C37: while a turn is in flight (waiting for the model's reply or
\* executing commands) the state last published to the agent's subscribers
\* has isProcessing true, however stop() is interleaved.
C37_PublishedProcessingDuringTurn ==
  TurnsInFlight # {} => published.isProcessing

(* ------------------ C38: the system prompt in a request ---------------- *)
\* where the session's system prompt stands in a list of messages
PromptAt(messages) ==
  {i \in DOMAIN messages : messages[i].content = SystemPrompt}

\* C38: the request body generateCompletion sends for a turn of the agent
\* holds the session's system prompt exactly once, as its first message.
C38_SystemPromptOnceAndFirst ==
  [][\A t \in 1..MaxTurns :
       RequestSent(t) => PromptAt(turns'[t].body) = {1}]_vars

(* ------------------ C39: independence of the chunking ------------------ *)
\* what streamCompletion delivers when the whole body arrives in one read:
\* every frame is whole and the lines after [DONE] are not looked at
InOneRead(response) ==
  forLines(splitFrames(Flatten(response), <<>>, <<>>), NoStreamRun)

\* C39: for a given sequence of server frames the tokens handed to onToken
\* and the text handed to onComplete are the same however the body is cut
\* into reads (a frame cut in two is still delivered once), and no token
\* comes from a frame behind the [DONE] frame.
C39_SameTokensForEveryChunking ==
  streamRun.pc = "resolved" =>
    /\ streamRun.tokens = InOneRead(streamRun.response).tokens
    /\ streamRun.completions = <<InOneRead(streamRun.response).fullText>>

====
